---- MODULE Spec2Model ----
(***************************************************************************)
(* Session engine of the multiplayer text adventure: the per-user mode     *)
(* machine, the command dispatcher, the movement resolver, the room steps  *)
(* of the creation wizard and the timed combat loop, over the persisted    *)
(* store (users, rooms, items) and the in-memory maps (sessions, wizard    *)
(* scratch data, battle registry, interval timers).                        *)
(*                                                                         *)
(* Every handler runs to completion on the single event loop, so each      *)
(* socket event, each timer callback and each promise continuation is one  *)
(* atomic action.                                                          *)
(***************************************************************************)
EXTENDS Integers, Sequences, FiniteSets, TLC

\* ---------------------------------------------------------------- bounds
MaxCoord == 1        \* moves are explored while |q|,|r| <= MaxCoord
MaxSockets == 2      \* sockets alive at once (connected, or still held by a callback)
MaxTimers == 2       \* intervals alive at once
MaxRooms == 5        \* rows of the rooms table
MaxBatches == 2      \* batches of art-service calls pending at once
MaxItems == 4        \* rows of the items table
MaxGold == 2         \* gold is followed while interactions keep it within -MaxGold..MaxGold
MaxHp == 2           \* max_hp of the users (scaled down from signup's 100)
SeedEnemyHp == 3     \* enemy_hp = enemy_max_hp of the authored enemy
MaxEnemyAttack == 2  \* enemy_attack of the authored enemy is at most this
SeedXp == 2          \* xp_value of the authored enemy

\* ------------------------------------------------------------- constants
DieSides == 6
SignupStrength == 1
DefaultXp == 10

UserIds == {"u1", "u2"}
Realm == "A"
NoValue == "undefined"

\* Raw command strings the clients send (already trimmed and lower-case):
\* while exploring and fighting,
CombatInputs == {"s", "fight goblin", "retreat"}

\* while two players are after the same enemy,
RivalInputs == {"s", "fight goblin"}

\* while exploring the map,
WorldInputs == {"n", "s"}

\* as the free text of a title or a description,
TextInputs == {"n"}

\* and while the wizard asks to choose ("n" is north, and no; "2" is a menu choice).
WizardInputs == {"n", "2"}

\* the dice of the two-player runs: the lowest and the highest face
RivalDice == {1, DieSides}

WizardRoomModes ==
  {"CREATING_ROOM_TITLE", "CREATING_ROOM_DESC", "CREATING_ROOM_MOOD", "CREATING_ROOM_SHROUD"}

WizardObjModes ==
  {"CREATING_OBJ_CONFIRM", "CREATING_OBJ_NAME", "CREATING_OBJ_DESC", "CREATING_OBJ_VERB",
   "CREATING_OBJ_SUCCESS_MSG", "CREATING_OBJ_TYPE", "CREATING_OBJ_VALUE",
   "CREATING_OBJ_CONTENTS", "CREATING_OBJ_ENEMY_STATS", "CREATING_OBJ_REQUIREMENT",
   "CREATING_OBJ_SUPPLY_TYPE", "CREATING_OBJ_VERB_CONFIRM"}

\* currentUser.state.startsWith('CREATING_') || state === 'GENERATING_ANIMATIONS'
IsCreationState(st) == st \in WizardRoomModes \cup WizardObjModes \cup {"GENERATING_ANIMATIONS"}

VARIABLES
  users,            \* table users: id -> row
  rooms,            \* table rooms: set of rows
  items,            \* table items: set of rows
  socketUserMap,    \* store: socket id -> user id (connected sockets only)
  tempRoomDataMap,  \* store: user id -> room scratch record
  tempItemDataMap,  \* store: user id -> item scratch record
  activeBattles,    \* combatState: user id -> interval handle
  battleData,       \* combatState: user id -> ActiveBattle
  timers,           \* live intervals, each with the closure of its callback
  generating,       \* pending generateAndSaveAnimations promises
  animations,       \* table animations: set of rows
  out,              \* events emitted by the last handler execution
  last              \* which event was handled last, and by which handlers

vars == <<users, rooms, items, socketUserMap, tempRoomDataMap, tempItemDataMap,
          activeBattles, battleData, timers, generating,
          animations, out, last>>

\* ------------------------------------------------------------ text input
\* raw.trim().toLowerCase().split(/\s+/) on the inputs above
Words(raw) ==
  CASE raw = "fight goblin" -> <<"fight", "goblin">>
    [] raw = "fight key" -> <<"fight", "key">>
    [] raw = "fight 1" -> <<"fight", "1">>
    [] raw = "fight 2" -> <<"fight", "2">>
    [] raw = "take key" -> <<"take", "key">>
    [] raw = "take 1" -> <<"take", "1">>
    [] raw = "take 2" -> <<"take", "2">>
    [] raw = "take apple" -> <<"take", "apple">>
    [] raw = "open gate" -> <<"open", "gate">>
    [] raw = "open key" -> <<"open", "key">>
    [] raw = "3 2 1" -> <<"3", "2", "1">>
    [] raw = "3 2" -> <<"3", "2">>
    [] raw = "3 0 1" -> <<"3", "0", "1">>
    [] OTHER -> <<raw>>

\* parseInt(word, 10): the integer the word starts with, or NaN
ParseInt(word) ==
  CASE word = "0" -> [nan |-> FALSE, n |-> 0]
    [] word = "-1" -> [nan |-> FALSE, n |-> -1]
    [] word = "2x" -> [nan |-> FALSE, n |-> 2]
    [] word = "1" -> [nan |-> FALSE, n |-> 1]
    [] word = "2" -> [nan |-> FALSE, n |-> 2]
    [] word = "3" -> [nan |-> FALSE, n |-> 3]
    [] word = "4" -> [nan |-> FALSE, n |-> 4]
    [] word = "5" -> [nan |-> FALSE, n |-> 5]
    [] word = "6" -> [nan |-> FALSE, n |-> 6]
    [] word = "7" -> [nan |-> FALSE, n |-> 7]
    [] word = "9" -> [nan |-> FALSE, n |-> 9]
    [] word \in {"3 2 1", "3 2", "3 0 1"} -> [nan |-> FALSE, n |-> 3]
    [] OTHER -> [nan |-> TRUE, n |-> 0]

Max(a, b) == IF a >= b THEN a ELSE b

\* variant: no ceiling
Min_unclamped(a, b) == b

Min(a, b) == IF a <= b THEN a ELSE b

Abs(x) == IF x < 0 THEN -x ELSE x

\* !value for an optional string: undefined or empty
Falsy(v) == v = NoValue \/ v = ""

Directions == {"n", "s", "ne", "se", "nw", "sw"}

parseDirection(raw) ==
  LET parts == Words(raw)
      dir == IF parts[1] = "go" /\ Len(parts) >= 2 /\ ~Falsy(parts[2]) THEN parts[2] ELSE parts[1]
  IN IF raw = "" THEN NoValue
     ELSE IF dir \in Directions THEN dir ELSE NoValue

moveAxial_offset(q, r, dir) ==
  CASE dir = "n" -> [q |-> q, r |-> r - 1]
    [] dir = "s" -> [q |-> q, r |-> r + 1]
    [] dir = "ne" -> [q |-> q + 1, r |-> r - 1]
    [] dir = "sw" -> [q |-> q - 1, r |-> r + 1]
    [] dir = "nw" -> [q |-> q - 1, r |-> r - 1]
    [] dir = "se" -> [q |-> q + 1, r |-> r]
    [] OTHER -> [q |-> q, r |-> r]

moveAxial(q, r, dir) ==
  CASE dir = "n" -> [q |-> q, r |-> r - 1]
    [] dir = "s" -> [q |-> q, r |-> r + 1]
    [] dir = "ne" -> [q |-> q + 1, r |-> r - 1]
    [] dir = "sw" -> [q |-> q - 1, r |-> r + 1]
    [] dir = "nw" -> [q |-> q - 1, r |-> r]
    [] dir = "se" -> [q |-> q + 1, r |-> r]
    [] OTHER -> [q |-> q, r |-> r]

\* ------------------------------------------------------------ repository
updateUserState(tbl, id, st) == [tbl EXCEPT ![id].state = st]

updateUserPosition_q(tbl, id, q, r) == [tbl EXCEPT ![id].current_q = q]

updateUserPosition(tbl, id, q, r) == [tbl EXCEPT ![id].current_q = q, ![id].current_r = r]

\* stats is a record holding a subset of hp, max_hp, gold, strength
updateUserStats(tbl, id, stats) ==
  [tbl EXCEPT ![id] = [k \in DOMAIN tbl[id] |-> IF k \in DOMAIN stats THEN stats[k] ELSE tbl[id][k]]]

\* RoomsAt without the server_code condition
RoomsAt_anyRealm(rms, q, r, serverCode) ==
  {x \in rms : x.q = q /\ x.r = r}

RoomsAt(rms, q, r, serverCode) ==
  {x \in rms : x.q = q /\ x.r = r /\ x.server_code = serverCode}

\* SELECT ... WHERE q = ? AND r = ? AND server_code = ? : the first row of the table scan
getRoom(rms, q, r, serverCode) ==
  CHOOSE x \in RoomsAt(rms, q, r, serverCode) :
    \A y \in RoomsAt(rms, q, r, serverCode) : x.id <= y.id

\* createRoom with the title and the description written to each other's column
createRoom_swapped(rms, room) ==
  rms \cup {[id |-> Cardinality(rms) + 1, q |-> room.q, r |-> room.r,
             server_code |-> room.server_code, title |-> room.description,
             description |-> room.title, shroud_level |-> room.shroud_level,
             created_by |-> room.created_by, symbol |-> NoValue]}

createRoom(rms, room) ==
  rms \cup {[id |-> Cardinality(rms) + 1, q |-> room.q, r |-> room.r,
             server_code |-> room.server_code, title |-> room.title,
             description |-> room.description, shroud_level |-> room.shroud_level,
             created_by |-> room.created_by, symbol |-> NoValue]}

updateRoomSymbol(rms, roomId, symbol) ==
  {IF x.id = roomId THEN [x EXCEPT !.symbol = symbol] ELSE x : x \in rms}

getRoomItems(its, roomId, serverCode) ==
  {i \in its : i.room_id = roomId /\ i.owner_id = NoValue /\ i.server_code = serverCode}

\* the rows of a result set in table order
RECURSIVE InOrder(_)
InOrder(S) ==
  IF S = {} THEN <<>>
  ELSE LET x == CHOOSE a \in S : \A b \in S : a.id <= b.id
       IN <<x>> \o InOrder(S \ {x})

ItemsWithId(its, itemId) == {i \in its : i.id = itemId}

\* variant: the UPDATE is not issued
updateItemEnemyHp_dropped(its, itemId, hp) == its

updateItemEnemyHp(its, itemId, hp) ==
  {IF i.id = itemId THEN [i EXCEPT !.enemy_hp = hp] ELSE i : i \in its}

\* variant: the row is left in the table
deleteItem_kept(its, itemId) == its

\* variant: the row stays and the enemy is back at full strength
deleteItem_respawned(its, itemId) ==
  {IF i.id = itemId THEN [i EXCEPT !.enemy_hp = i.enemy_max_hp] ELSE i : i \in its}

deleteItem(its, itemId) ==
  {IF i.required_item_id = itemId THEN [i EXCEPT !.required_item_id = 0] ELSE i :
     i \in {j \in its : j.id # itemId}}

\* uuidv4() for a new item: the smallest id that no row holds and nothing refers to
FreshItem ==
  LET held == {i.id : i \in items} \cup {i.required_item_id : i \in items}
              \cup {t.target : t \in timers}
              \cup {battleData[u].enemyId : u \in DOMAIN battleData}
              \cup UNION {g.items : g \in generating}
              \cup {a.object_id : a \in animations}
              \cup {tempItemDataMap[u].requiredItemId : u \in DOMAIN tempItemDataMap}
  IN CHOOSE n \in 1..(Cardinality(held) + 1) :
       n \notin held /\ \A m \in 1..(n - 1) : m \in held

\* the is_infinite column of the items table, as the handlers write and read it
isInfiniteColumn(flag) == flag

createItem(its, item) ==
  its \cup {[f \in DOMAIN item \cup {"id"} |-> IF f = "id" THEN FreshItem ELSE item[f]]}

setItemOwner_kept(its, itemId, ownerId, roomId) ==
  {IF i.id = itemId THEN [i EXCEPT !.owner_id = ownerId] ELSE i : i \in its}

setItemOwner_copy(its, itemId, ownerId, roomId) ==
  its \cup {[i EXCEPT !.owner_id = ownerId, !.room_id = roomId] : i \in {j \in its : j.id = itemId}}

\* UPDATE items SET owner_id = ?, room_id = ? WHERE id = ?  (room 0 is NULL)
setItemOwner(its, itemId, ownerId, roomId) ==
  {IF i.id = itemId THEN [i EXCEPT !.owner_id = ownerId, !.room_id = roomId] ELSE i : i \in its}

cloneItemForUser_moved(its, item, userId) == setItemOwner(its, item.id, userId, 0)

\* a copy of the template row, with an id of its own, in the inventory of the user
cloneItemForUser(its, item, userId) ==
  its \cup {[item EXCEPT !.id = FreshItem, !.owner_id = userId, !.room_id = 0]}

\* SELECT * FROM items WHERE owner_id = ? AND server_code = ?
getUserInventory(its, userId, serverCode) ==
  {i \in its : i.owner_id = userId /\ i.server_code = serverCode}

\* the first statement of deleteItem: DELETE FROM animations WHERE object_id = ?
deleteItemAnimations(anims, itemId) == {a \in anims : a.object_id # itemId}

\* A row of the animations table, with its frames left out; object_id 0 is NULL.  The
\* id is the smallest one no row holds.  object_id REFERENCES items(id) and
\* foreign keys are on: the insert of a row for an item that is gone throws.
FreshAnimation(anims) ==
  CHOOSE n \in 1..(Cardinality(anims) + 1) : (\A a \in anims : a.id # n)
                                              /\ \A m \in 1..(n - 1) : \E a \in anims : a.id = m

createAnimation(anims, anim) ==
  anims \cup {[id |-> FreshAnimation(anims), room_id |-> anim.room_id,
               object_id |-> anim.object_id, type |-> anim.type]}

deleteRoomAnimations(anims, roomId) == {a \in anims : a.room_id # roomId}

Tapestry(roomId) == [room_id |-> roomId, object_id |-> 0, type |-> "TAPESTRY"]

Interaction(roomId, itemId) == [room_id |-> roomId, object_id |-> itemId, type |-> "INTERACTION"]

\* ----------------------------------------------------------- the stores
Has(map, key) == key \in DOMAIN map

Put(map, key, val) == [k \in DOMAIN map \cup {key} |-> IF k = key THEN val ELSE map[k]]

Del(map, key) == [k \in DOMAIN map \ {key} |-> map[k]]

EmptyMap == [k \in {} |-> NoValue]

isInCombat(userId) == Has(activeBattles, userId)

\* Socket ids and interval handles are names of objects; the name of an object that
\* nothing refers to any more is given to the next object created.
FreeSockets ==
  (1..MaxSockets) \ (DOMAIN socketUserMap \cup {t.sock : t \in timers}
                     \cup {g.sock : g \in generating}
                     \cup {battleData[u].socketId : u \in DOMAIN battleData})

FreshSocket == CHOOSE s \in FreeSockets : \A x \in FreeSockets : s <= x

FreeTimers ==
  (1..MaxTimers) \ ({t.id : t \in timers} \cup {activeBattles[u] : u \in DOMAIN activeBattles}
                    \cup {battleData[u].interval : u \in DOMAIN battleData})

FreshTimer == CHOOSE i \in FreeTimers : \A x \in FreeTimers : i <= x

\* setInterval(callback, 1500): timer holds the variables the callback closes over
setInterval(cs, timer) == [cs EXCEPT !.timers = @ \cup {timer}]

\* variant: the interval keeps running
clearInterval_running(tms, handle) == tms

\* clearInterval(handle)
clearInterval(tms, handle) == {t \in tms : t.id # handle}

\* the module state of combatState together with the timers its handles refer to
CombatState == [activeBattles |-> activeBattles, battleData |-> battleData, timers |-> timers]

startBattle(cs, userId, socketId, enemyId, interval) ==
  [cs EXCEPT !.activeBattles = Put(@, userId, interval),
             !.battleData = Put(@, userId, [userId |-> userId, socketId |-> socketId,
                                            enemyId |-> enemyId, interval |-> interval])]

\* variant: the registry forgets the battle and leaves its interval alone
endBattle_leaking(cs, userId) ==
  [activeBattles |-> Del(cs.activeBattles, userId),
   battleData |-> Del(cs.battleData, userId),
   timers |-> cs.timers]

endBattle(cs, userId) ==
  [activeBattles |-> Del(cs.activeBattles, userId),
   battleData |-> Del(cs.battleData, userId),
   timers |-> IF Has(cs.battleData, userId)
              THEN clearInterval(cs.timers, cs.battleData[userId].interval)
              ELSE cs.timers]

\* variant: the registry is written, but no interval is ever stopped
SetCombatState_neverCleared(cs) ==
  /\ activeBattles' = cs.activeBattles
  /\ battleData' = cs.battleData
  /\ timers' = timers \cup cs.timers

SetCombatState(cs) ==
  /\ activeBattles' = cs.activeBattles
  /\ battleData' = cs.battleData
  /\ timers' = cs.timers

\* --------------------------------------------------------------- events
Ev(sock, ev, tag, data) == [sock |-> sock, ev |-> ev, tag |-> tag, data |-> data]

Log(sock, type, text) == Ev(sock, "game:log", type, text)

\* state:update with `player` a user row read earlier
StateUpdateOf(sock, player) ==
  Ev(sock, "state:update", "", [state |-> player.state, q |-> player.current_q,
                                r |-> player.current_r, hp |-> player.hp, gold |-> player.gold])

StateUpdate(sock, tbl, u) == StateUpdateOf(sock, tbl[u])

\* the art-service calls of one room, as started by handleObjConfirm ("wizard") or by
\* handleRegenerate ("regenerate"): what the promise has captured and how far it is
FreshBatch ==
  CHOOSE n \in 1..MaxBatches : (\A g \in generating : g.id # n)
                               /\ \A m \in 1..(n - 1) : \E g \in generating : g.id = m

Batch(kind, s, u, roomId) ==
  [id |-> FreshBatch, kind |-> kind, sock |-> s, user |-> u, player |-> users[u], room |-> roomId,
   items |-> {i.id : i \in getRoomItems(items, roomId, users[u].server_code)},
   phase |-> "symbol", waiting |-> {}, tapestry |-> "pending", thrown |-> {}]

\* what a settled batch leaves in `last`
Settled(g) == [room |-> g.room, items |-> g.items, tapestry |-> g.tapestry, thrown |-> g.thrown]

NoBatch == [room |-> 0, items |-> {}, tapestry |-> "pending", thrown |-> {}]

Handled(kind, u, raw, handlers, target) ==
  [kind |-> kind, user |-> u, mode |-> users[u].state, raw |-> raw,
   inCombat |-> isInCombat(u), handlers |-> handlers, target |-> target, batch |-> NoBatch]

\* ----------------------------------------------------------------- Init
GenesisRoom ==
  [id |-> 1, q |-> 0, r |-> 0, server_code |-> Realm, title |-> "The Crash Site",
   description |-> "wreckage", shroud_level |-> 0, created_by |-> "u1", symbol |-> NoValue]

\* a room authored earlier, south of the origin, holding one enemy
LairRoom ==
  [id |-> 2, q |-> 0, r |-> 1, server_code |-> Realm, title |-> "lair",
   description |-> "dark", shroud_level |-> 0, created_by |-> "u1", symbol |-> NoValue]

\* and one beyond it
CellarRoom ==
  [id |-> 3, q |-> 0, r |-> 2, server_code |-> Realm, title |-> "cellar",
   description |-> "damp", shroud_level |-> 0, created_by |-> "u1", symbol |-> NoValue]

\* and one east of the origin
GroveRoom ==
  [id |-> 4, q |-> 1, r |-> 0, server_code |-> Realm, title |-> "grove",
   description |-> "green", shroud_level |-> 0, created_by |-> "u1", symbol |-> NoValue]

Goblin ==
  [id |-> 1, room_id |-> 2, owner_id |-> NoValue, server_code |-> Realm, name |-> "goblin",
   interact_verb |-> "fight", effect_type |-> "NONE", effect_value |-> 0,
   required_item_id |-> 0, enemy_hp |-> SeedEnemyHp, enemy_max_hp |-> SeedEnemyHp,
   enemy_attack |-> MaxEnemyAttack, xp_value |-> SeedXp, is_infinite |-> FALSE]

\* a pickup authored earlier, lying at the origin
Key ==
  [id |-> 2, room_id |-> 1, owner_id |-> NoValue, server_code |-> Realm, name |-> "key",
   interact_verb |-> "take", effect_type |-> "ITEM", effect_value |-> 0,
   required_item_id |-> 0, enemy_hp |-> 0, enemy_max_hp |-> 0, enemy_attack |-> 0,
   xp_value |-> DefaultXp, is_infinite |-> isInfiniteColumn(FALSE)]

\* an infinite pickup authored earlier, lying at the origin
Apple ==
  [Key EXCEPT !.id = 3, !.name = "apple", !.is_infinite = isInfiniteColumn(TRUE)]

NewUser ==
  [server_code |-> Realm, strength |-> SignupStrength, hp |-> MaxHp, max_hp |-> MaxHp,
   gold |-> 0, current_q |-> 0, current_r |-> 0, state |-> "IDLE"]

\* the server starts on a database that holds the users, the rooms and the items
InitOn(rms, its) ==
  /\ users = [u \in UserIds |-> NewUser]
  /\ rooms = rms
  /\ items = its
  /\ socketUserMap = EmptyMap
  /\ tempRoomDataMap = EmptyMap
  /\ tempItemDataMap = EmptyMap
  /\ activeBattles = EmptyMap
  /\ battleData = EmptyMap
  /\ timers = {}
  /\ generating = {}
  /\ animations = {}
  /\ out = <<>>
  /\ last = [kind |-> "init", user |-> NoValue, mode |-> NoValue, raw |-> NoValue,
             inCombat |-> FALSE, handlers |-> {}, target |-> 0, batch |-> NoBatch]

InitWith(enemy) == InitOn({GenesisRoom, LairRoom, CellarRoom}, {enemy})

Init == InitWith(Goblin)

\* a world with one more room authored, east of the origin, and a key to pick up
InitAuthor == InitOn({GenesisRoom, LairRoom, CellarRoom, GroveRoom}, {Goblin, Key})

\* a world with a key and an infinite supply of apples to pick up at the origin
InitItems == InitOn({GenesisRoom, LairRoom, CellarRoom}, {Key, Apple})

\* the same world with the goblin in its lair
InitStore == InitOn({GenesisRoom, LairRoom, CellarRoom}, {Goblin, Key, Apple})

\* the enemy was authored with any attack from 1 up
InitDuel == \E attack \in 1..MaxEnemyAttack : InitWith([Goblin EXCEPT !.enemy_attack = attack])

\* the database holds a second realm, "B", as well: its user u2, its room at the origin
\* with a key of its own and, or not, a room of its own in what is void in realm "A"
InitRealms ==
  \E n \in 1..2 :
    LET there == <<[GenesisRoom EXCEPT !.id = 3, !.server_code = "B", !.created_by = "u2"],
                   [LairRoom EXCEPT !.id = 4, !.r = -1, !.server_code = "B", !.created_by = "u2"]>>
    IN /\ users = [u \in UserIds |-> IF u = "u2" THEN [NewUser EXCEPT !.server_code = "B"]
                                     ELSE NewUser]
       /\ rooms = {GenesisRoom, LairRoom} \cup {there[k] : k \in 1..n}
       /\ items = {Goblin, Key} \cup {[Key EXCEPT !.id = 3, !.room_id = 3, !.server_code = "B"]}
       /\ socketUserMap = EmptyMap
       /\ tempRoomDataMap = EmptyMap
       /\ tempItemDataMap = EmptyMap
       /\ activeBattles = EmptyMap
       /\ battleData = EmptyMap
       /\ timers = {}
       /\ generating = {}
       /\ animations = {}
       /\ out = <<>>
       /\ last = [kind |-> "init", user |-> NoValue, mode |-> NoValue, raw |-> NoValue,
                  inCombat |-> FALSE, handlers |-> {}, target |-> 0, batch |-> NoBatch]

\* what one handler may change besides the events it emits
handlerVars == <<users, rooms, items, tempRoomDataMap, tempItemDataMap,
                 activeBattles, battleData, timers, generating, animations>>

\* a handler that only emits
Emits(evs) == out' = evs /\ UNCHANGED handlerVars

InBounds(q, r) == q >= -MaxCoord /\ q <= MaxCoord /\ r >= -MaxCoord /\ r <= MaxCoord

\* ------------------------------------------------------------- movement
\* the `handled` flag handleMove returns
MoveHandled(u, raw) == users[u].state # "IDLE" \/ parseDirection(raw) # NoValue

handleMove_anyMode(s, u, raw) ==
  LET to == moveAxial(users[u].current_q, users[u].current_r, parseDirection(raw))
  IN /\ InBounds(to.q, to.r)
     /\ users' = updateUserPosition(users, u, to.q, to.r)
     /\ out' = <<StateUpdate(s, users', u)>>
     /\ UNCHANGED <<rooms, items, tempRoomDataMap, tempItemDataMap, activeBattles,
                    battleData, timers, generating, animations>>

handleMove(s, u, raw) ==
  IF users[u].state # "IDLE"
  THEN Emits(<<Log(s, "error", "Cannot move while in this state.")>>)
  ELSE LET to == moveAxial(users[u].current_q, users[u].current_r, parseDirection(raw))
           users1 == updateUserPosition(users, u, to.q, to.r)
           serverCode == users[u].server_code
       IN /\ InBounds(to.q, to.r)
          /\ IF RoomsAt(rooms, to.q, to.r, serverCode) = {}
             THEN /\ users' = updateUserState(users1, u, "CREATING_ROOM_TITLE")
                  /\ tempRoomDataMap' = Put(tempRoomDataMap, u,
                        [q |-> to.q, r |-> to.r, title |-> NoValue,
                         description |-> NoValue, mood |-> NoValue])
                  /\ out' = <<Log(s, "prompt", "What is this place called?"),
                              StateUpdate(s, users', u)>>
             ELSE /\ users' = users1
                  /\ tempRoomDataMap' = tempRoomDataMap
                  /\ out' = <<StateUpdate(s, users', u)>>
          /\ UNCHANGED <<rooms, items, tempItemDataMap, activeBattles, battleData,
                         timers, generating, animations>>

\* ------------------------------------------------------ creation wizard
SessionExpired(s) == Log(s, "error", "Creation session expired. Please try again.")

MoodMap(n) ==
  CASE n = 1 -> "Neutral" [] n = 2 -> "Mysterious" [] n = 3 -> "Dangerous"
    [] n = 4 -> "Peaceful" [] n = 5 -> "Ancient" [] OTHER -> "Whimsical"

\* { roomId }: the item scratch record with nothing entered yet (0, FALSE and NoValue
\* are what the code reads as unset)
NewItemData(roomId) ==
  [roomId |-> roomId, name |-> NoValue, description |-> NoValue, verb |-> NoValue,
   successMessage |-> NoValue, interactionType |-> NoValue, effectValue |-> 0,
   enemyHp |-> 0, enemyAttack |-> 0, xpValue |-> 0, isInfinite |-> FALSE,
   requiredItemId |-> 0, requiredItemName |-> NoValue]

handleRoomTitle(s, u, raw) ==
  LET tempData == IF Has(tempRoomDataMap, u) THEN tempRoomDataMap[u]
                  ELSE [q |-> users[u].current_q, r |-> users[u].current_r, title |-> NoValue,
                        description |-> NoValue, mood |-> NoValue]
  IN /\ tempRoomDataMap' = Put(tempRoomDataMap, u, [tempData EXCEPT !.title = raw])
     /\ users' = updateUserState(users, u, "CREATING_ROOM_DESC")
     /\ out' = <<Log(s, "prompt", "Describe the surroundings."), StateUpdate(s, users', u)>>
     /\ UNCHANGED <<rooms, items, tempItemDataMap, activeBattles, battleData,
                    timers, generating, animations>>

handleRoomDesc(s, u, raw) ==
  IF ~Has(tempRoomDataMap, u)
  THEN /\ users' = updateUserState(users, u, "IDLE")
       /\ out' = <<SessionExpired(s)>>
       /\ UNCHANGED <<rooms, items, tempRoomDataMap, tempItemDataMap, activeBattles,
                      battleData, timers, generating, animations>>
  ELSE /\ tempRoomDataMap' = Put(tempRoomDataMap, u, [tempRoomDataMap[u] EXCEPT !.description = raw])
       /\ users' = updateUserState(users, u, "CREATING_ROOM_MOOD")
       /\ out' = <<Log(s, "prompt", "Choose a Mood"), StateUpdate(s, users', u)>>
       /\ UNCHANGED <<rooms, items, tempItemDataMap, activeBattles, battleData,
                      timers, generating, animations>>

handleRoomMood(s, u, raw) ==
  LET moodNumber == ParseInt(raw)
  IN IF ~Has(tempRoomDataMap, u)
     THEN /\ users' = updateUserState(users, u, "IDLE")
          /\ out' = <<SessionExpired(s)>>
          /\ UNCHANGED <<rooms, items, tempRoomDataMap, tempItemDataMap, activeBattles,
                         battleData, timers, generating, animations>>
     ELSE IF moodNumber.nan \/ moodNumber.n < 1 \/ moodNumber.n > 6
     THEN Emits(<<Log(s, "error", "Invalid selection.")>>)
     ELSE /\ tempRoomDataMap' = Put(tempRoomDataMap, u,
                                    [tempRoomDataMap[u] EXCEPT !.mood = MoodMap(moodNumber.n)])
          /\ users' = updateUserState(users, u, "CREATING_ROOM_SHROUD")
          /\ out' = <<Log(s, "prompt", "How mysterious is this place? (0-5)"),
                      StateUpdate(s, users', u)>>
          /\ UNCHANGED <<rooms, items, tempItemDataMap, activeBattles, battleData,
                         timers, generating, animations>>

handleRoomShroud(s, u, raw) ==
  LET shroudLevel == ParseInt(raw)
  IN IF \/ ~Has(tempRoomDataMap, u)
        \/ Falsy(tempRoomDataMap[u].title)
        \/ Falsy(tempRoomDataMap[u].description)
        \/ Falsy(tempRoomDataMap[u].mood)
     THEN /\ users' = updateUserState(users, u, "IDLE")
          /\ tempRoomDataMap' = Del(tempRoomDataMap, u)
          /\ out' = <<SessionExpired(s)>>
          /\ UNCHANGED <<rooms, items, tempItemDataMap, activeBattles, battleData,
                         timers, generating, animations>>
     ELSE IF shroudLevel.nan \/ shroudLevel.n < 0 \/ shroudLevel.n > 5
     THEN Emits(<<Log(s, "error", "Invalid shroud level.")>>)
     ELSE LET tempData == tempRoomDataMap[u]
              newId == Cardinality(rooms) + 1
          IN /\ Cardinality(rooms) < MaxRooms
             /\ rooms' = createRoom(rooms, [q |-> tempData.q, r |-> tempData.r,
                                            server_code |-> users[u].server_code,
                                            title |-> tempData.title,
                                            description |-> tempData.description,
                                            shroud_level |-> shroudLevel.n,
                                            created_by |-> u])
             /\ users' = updateUserState(users, u, "CREATING_OBJ_CONFIRM")
             /\ tempItemDataMap' = Put(tempItemDataMap, u, NewItemData(newId))
             /\ out' = <<Log(s, "info", "The world takes shape around you."),
                         Log(s, "prompt", "Add an object? (y/n)"),
                         StateUpdate(s, users, u)>>   \* the row read before the mode is written
             /\ UNCHANGED <<items, tempRoomDataMap, activeBattles, battleData,
                            timers, generating, animations>>

handleObjConfirm(s, u, raw) ==
  LET serverCode == users[u].server_code
      here == RoomsAt(rooms, users[u].current_q, users[u].current_r, serverCode)
  IN IF raw \in {"n", "no"}
     THEN IF here = {}
          THEN Emits(<<>>)   \* currentRoom.id of undefined throws before any write
          ELSE /\ Cardinality(generating) < MaxBatches
               /\ users' = updateUserState(users, u, "GENERATING_ANIMATIONS")
               /\ generating' = generating \cup
                    {Batch("wizard", s, u,
                           getRoom(rooms, users[u].current_q, users[u].current_r, serverCode).id)}
               /\ out' = <<Log(s, "info", "Weaving the threads of reality..."),
                           StateUpdate(s, users', u)>>
               /\ UNCHANGED <<rooms, items, tempRoomDataMap, tempItemDataMap, activeBattles,
                              battleData, timers, animations>>
     ELSE IF raw \in {"y", "yes"}
     THEN /\ users' = updateUserState(users, u, "CREATING_OBJ_NAME")
          /\ out' = <<Log(s, "prompt", "What is this object called?"), StateUpdate(s, users', u)>>
          /\ UNCHANGED <<rooms, items, tempRoomDataMap, tempItemDataMap, activeBattles,
                         battleData, timers, generating, animations>>
     ELSE Emits(<<Log(s, "error", "Please answer with y or n.")>>)

\* the expiry branch of the object steps past the name
ObjExpired(s, u) ==
  /\ users' = updateUserState(users, u, "IDLE")
  /\ tempItemDataMap' = Del(tempItemDataMap, u)
  /\ out' = <<SessionExpired(s)>>
  /\ UNCHANGED <<rooms, items, tempRoomDataMap, activeBattles, battleData, timers,
                 generating, animations>>

\* the common end of an object step: store the scratch record, write the mode, prompt
ObjStep(s, u, data, mode, prompt) ==
  /\ tempItemDataMap' = Put(tempItemDataMap, u, data)
  /\ users' = updateUserState(users, u, mode)
  /\ out' = prompt \o <<StateUpdate(s, users', u)>>
  /\ UNCHANGED <<rooms, items, tempRoomDataMap, activeBattles, battleData, timers,
                 generating, animations>>

\* !tempItemData || !tempItemData.name
NoName(u) == ~Has(tempItemDataMap, u) \/ Falsy(tempItemDataMap[u].name)

\* !tempItemData || !tempItemData.name || !tempItemData.interactionType
NoType(u) == NoName(u) \/ Falsy(tempItemDataMap[u].interactionType)

handleObjName(s, u, raw) ==
  IF ~Has(tempItemDataMap, u)
  THEN /\ users' = updateUserState(users, u, "IDLE")
       /\ out' = <<SessionExpired(s)>>
       /\ UNCHANGED <<rooms, items, tempRoomDataMap, tempItemDataMap, activeBattles,
                      battleData, timers, generating, animations>>
  ELSE ObjStep(s, u, [tempItemDataMap[u] EXCEPT !.name = raw], "CREATING_OBJ_DESC",
               <<Log(s, "prompt", "Describe this object.")>>)

handleObjDesc(s, u, raw) ==
  IF NoName(u) THEN ObjExpired(s, u)
  ELSE ObjStep(s, u, [tempItemDataMap[u] EXCEPT !.description = raw], "CREATING_OBJ_TYPE",
               <<Log(s, "prompt", "What type of object?")>>)

handleObjVerb(s, u, raw) ==
  IF NoName(u) THEN ObjExpired(s, u)
  ELSE ObjStep(s, u, [tempItemDataMap[u] EXCEPT !.verb = raw], "CREATING_OBJ_SUCCESS_MSG",
               <<Log(s, "prompt", "Describe what happens.")>>)

TypeMap(n) ==
  CASE n = 1 -> "FLAVOR" [] n = 2 -> "TREASURE" [] n = 3 -> "BUFF_TRAP"
    [] n = 4 -> "PICKUP" [] n = 5 -> "ENEMY" [] OTHER -> "GATE"

handleObjType(s, u, raw) ==
  LET choice == ParseInt(raw)
      interactionType == TypeMap(choice.n)
      data == tempItemDataMap[u]
      typed == [data EXCEPT !.interactionType = interactionType]
      \* the verb the type sets, or the one kept, or none
      defaulted(verb) == [typed EXCEPT !.verb = IF Falsy(data.verb) THEN verb ELSE data.verb]
  IN IF NoName(u) THEN ObjExpired(s, u)
     ELSE IF choice.nan \/ choice.n < 1 \/ choice.n > 6
     THEN Emits(<<Log(s, "error", "Invalid selection.")>>)
     ELSE CASE interactionType = "FLAVOR" ->
                 ObjStep(s, u, typed, "CREATING_OBJ_VERB",
                         <<Log(s, "prompt", "What is the interaction verb?")>>)
            [] interactionType = "TREASURE" ->
                 ObjStep(s, u, [typed EXCEPT !.verb = "search"], "CREATING_OBJ_VALUE",
                         <<Log(s, "prompt", "How much Gold?")>>)
            [] interactionType = "BUFF_TRAP" ->
                 ObjStep(s, u, [typed EXCEPT !.verb = "touch"], "CREATING_OBJ_VALUE",
                         <<Log(s, "prompt", "HP Change? (Positive/Negative)")>>)
            [] interactionType = "PICKUP" ->
                 ObjStep(s, u, defaulted("take"), "CREATING_OBJ_SUPPLY_TYPE",
                         <<Log(s, "prompt", "Unique or Infinite? (1. Unique, 2. Infinite)")>>)
            [] interactionType = "ENEMY" ->
                 ObjStep(s, u, [typed EXCEPT !.verb = "fight"], "CREATING_OBJ_ENEMY_STATS",
                         <<Log(s, "prompt", "Enter HP Attack XP")>>)
            [] OTHER ->
                 ObjStep(s, u, defaulted("open"), "CREATING_OBJ_REQUIREMENT",
                         <<Log(s, "prompt", "Name of required Key?")>>)

handleObjValue(s, u, raw) ==
  LET value == ParseInt(raw)
  IN IF NoType(u) THEN ObjExpired(s, u)
     ELSE IF value.nan
     THEN Emits(<<Log(s, "error", "Invalid number.")>>)
     ELSE ObjStep(s, u, [tempItemDataMap[u] EXCEPT !.effectValue = value.n],
                  "CREATING_OBJ_VERB_CONFIRM", <<Log(s, "prompt", "Default verb?")>>)

\* variant: the enemy's verb is put to the author like that of the other types
handleObjEnemyStats_confirming(s, u, raw) ==
  LET parts == Words(raw)
      hp == ParseInt(parts[1])
      attack == ParseInt(parts[2])
      xp == ParseInt(parts[3])
  IN IF NoType(u) THEN ObjExpired(s, u)
     ELSE IF Len(parts) < 3
     THEN Emits(<<Log(s, "error", "Invalid format.")>>)
     ELSE IF hp.nan \/ attack.nan \/ xp.nan \/ hp.n <= 0 \/ attack.n <= 0 \/ xp.n <= 0
     THEN Emits(<<Log(s, "error", "Invalid values.")>>)
     ELSE ObjStep(s, u, [tempItemDataMap[u] EXCEPT !.enemyHp = hp.n, !.enemyAttack = attack.n,
                                                  !.xpValue = xp.n],
                  "CREATING_OBJ_VERB_CONFIRM", <<Log(s, "prompt", "Default verb?")>>)

handleObjEnemyStats(s, u, raw) ==
  LET parts == Words(raw)
      hp == ParseInt(parts[1])
      attack == ParseInt(parts[2])
      xp == ParseInt(parts[3])
  IN IF NoType(u) THEN ObjExpired(s, u)
     ELSE IF Len(parts) < 3
     THEN Emits(<<Log(s, "error", "Invalid format.")>>)
     ELSE IF hp.nan \/ attack.nan \/ xp.nan \/ hp.n <= 0 \/ attack.n <= 0 \/ xp.n <= 0
     THEN Emits(<<Log(s, "error", "Invalid values.")>>)
     ELSE ObjStep(s, u, [tempItemDataMap[u] EXCEPT !.enemyHp = hp.n, !.enemyAttack = attack.n,
                                                  !.xpValue = xp.n],
                  "CREATING_OBJ_SUCCESS_MSG", <<Log(s, "prompt", "Describe what happens.")>>)

handleObjSupplyType_lenient(s, u, raw) ==
  IF NoType(u) THEN ObjExpired(s, u)
  ELSE ObjStep(s, u, [tempItemDataMap[u] EXCEPT !.isInfinite = (ParseInt(raw).n # 1)],
               "CREATING_OBJ_VERB_CONFIRM", <<Log(s, "prompt", "Default verb?")>>)

handleObjSupplyType(s, u, raw) ==
  LET choice == ParseInt(raw)
  IN IF NoType(u) THEN ObjExpired(s, u)
     ELSE IF choice.nan \/ (choice.n # 1 /\ choice.n # 2)
     THEN Emits(<<Log(s, "error", "Invalid selection.")>>)
     ELSE ObjStep(s, u, [tempItemDataMap[u] EXCEPT !.isInfinite = (choice.n = 2)],
                  "CREATING_OBJ_VERB_CONFIRM", <<Log(s, "prompt", "Default verb?")>>)

handleObjRequirement(s, u, raw) ==
  LET data == tempItemDataMap[u]
      matching == {i \in getRoomItems(items, data.roomId, users[u].server_code) : i.name = raw}
  IN IF NoType(u) THEN ObjExpired(s, u)
     ELSE IF raw = ""
     THEN Emits(<<Log(s, "error", "Item name cannot be empty.")>>)
     ELSE IF matching # {}
     THEN ObjStep(s, u, [data EXCEPT !.requiredItemId = InOrder(matching)[1].id,
                                     !.requiredItemName = raw],
                  "CREATING_OBJ_VERB_CONFIRM",
                  <<Log(s, "info", "Found item. Gate will require this item."),
                    Log(s, "prompt", "Default verb?")>>)
     ELSE ObjStep(s, u, [data EXCEPT !.requiredItemId = 0, !.requiredItemName = raw],
                  "CREATING_OBJ_VERB_CONFIRM",
                  <<Log(s, "error", "Warning: Item not found in this room."),
                    Log(s, "prompt", "Default verb?")>>)

handleObjVerbConfirm(s, u, raw) ==
  IF NoType(u) THEN ObjExpired(s, u)
  ELSE ObjStep(s, u, IF raw \in {"y", "yes"} THEN tempItemDataMap[u]
                     ELSE [tempItemDataMap[u] EXCEPT !.verb = raw],
               "CREATING_OBJ_SUCCESS_MSG", <<Log(s, "prompt", "Describe what happens.")>>)

\* the row finishObjectCreation hands to createItem
ItemOf(data, serverCode) ==
  LET kind == data.interactionType
  IN [room_id |-> data.roomId, owner_id |-> NoValue, server_code |-> serverCode,
      name |-> data.name, interact_verb |-> data.verb,
      effect_type |-> CASE kind = "TREASURE" -> "GOLD"
                        [] kind = "BUFF_TRAP" -> IF data.effectValue > 0 THEN "HEAL" ELSE "DAMAGE"
                        [] kind = "PICKUP" -> "ITEM"
                        [] OTHER -> "NONE",
      effect_value |-> CASE kind = "TREASURE" -> data.effectValue
                         [] kind = "BUFF_TRAP" -> Abs(data.effectValue)
                         [] OTHER -> 0,
      required_item_id |-> IF kind = "GATE" THEN data.requiredItemId ELSE 0,
      enemy_hp |-> IF kind = "ENEMY" THEN data.enemyHp ELSE 0,
      enemy_max_hp |-> IF kind = "ENEMY" THEN data.enemyHp ELSE 0,
      enemy_attack |-> IF kind = "ENEMY" THEN data.enemyAttack ELSE 0,
      xp_value |-> IF kind = "ENEMY" /\ data.xpValue # 0 THEN data.xpValue ELSE DefaultXp,
      is_infinite |-> isInfiniteColumn(data.isInfinite)]

finishObjectCreation(s, u, data) ==
  /\ Cardinality(items) < MaxItems
  /\ items' = createItem(items, ItemOf(data, users[u].server_code))
  /\ users' = updateUserState(users, u, "CREATING_OBJ_CONFIRM")
  /\ tempItemDataMap' = Put(tempItemDataMap, u, NewItemData(data.roomId))
  /\ out' = <<Log(s, "info", "Object created!"), Log(s, "prompt", "Add an object? (y/n)"),
              StateUpdate(s, users', u)>>
  /\ UNCHANGED <<rooms, tempRoomDataMap, activeBattles, battleData, timers, generating,
                 animations>>

handleObjSuccessMsg(s, u, raw) ==
  IF NoName(u) THEN ObjExpired(s, u)
  ELSE finishObjectCreation(s, u, [tempItemDataMap[u] EXCEPT !.successMessage = raw])

handleObjContents(s, u, raw) ==
  IF ~Has(tempItemDataMap, u) THEN ObjExpired(s, u)
  ELSE finishObjectCreation(s, u, tempItemDataMap[u])

handleInput(s, u, raw) ==
  CASE users[u].state = "CREATING_ROOM_TITLE" -> handleRoomTitle(s, u, raw)
    [] users[u].state = "CREATING_ROOM_DESC" -> handleRoomDesc(s, u, raw)
    [] users[u].state = "CREATING_ROOM_MOOD" -> handleRoomMood(s, u, raw)
    [] users[u].state = "CREATING_ROOM_SHROUD" -> handleRoomShroud(s, u, raw)
    [] users[u].state = "CREATING_OBJ_CONFIRM" -> handleObjConfirm(s, u, raw)
    [] users[u].state = "CREATING_OBJ_NAME" -> handleObjName(s, u, raw)
    [] users[u].state = "CREATING_OBJ_DESC" -> handleObjDesc(s, u, raw)
    [] users[u].state = "CREATING_OBJ_VERB" -> handleObjVerb(s, u, raw)
    [] users[u].state = "CREATING_OBJ_SUCCESS_MSG" -> handleObjSuccessMsg(s, u, raw)
    [] users[u].state = "CREATING_OBJ_TYPE" -> handleObjType(s, u, raw)
    [] users[u].state = "CREATING_OBJ_VALUE" -> handleObjValue(s, u, raw)
    [] users[u].state = "CREATING_OBJ_CONTENTS" -> handleObjContents(s, u, raw)
    [] users[u].state = "CREATING_OBJ_ENEMY_STATS" -> handleObjEnemyStats(s, u, raw)
    [] users[u].state = "CREATING_OBJ_REQUIREMENT" -> handleObjRequirement(s, u, raw)
    [] users[u].state = "CREATING_OBJ_SUPPLY_TYPE" -> handleObjSupplyType(s, u, raw)
    [] users[u].state = "CREATING_OBJ_VERB_CONFIRM" -> handleObjVerbConfirm(s, u, raw)
    [] OTHER -> Emits(<<>>)   \* GENERATING_ANIMATIONS: input is swallowed

\* ------------------------------------------------------- art generation
\* handleRegenerate up to its first await
handleRegenerate(s, u) ==
  LET user == users[u]
      here == RoomsAt(rooms, user.current_q, user.current_r, user.server_code)
      currentRoom == getRoom(rooms, user.current_q, user.current_r, user.server_code)
  IN IF here = {}
     THEN Emits(<<Log(s, "error", "You are in undefined space. Cannot regenerate animations.")>>)
     ELSE /\ Cardinality(generating) < MaxBatches
          /\ animations' = deleteRoomAnimations(animations, currentRoom.id)
          /\ generating' = generating \cup {Batch("regenerate", s, u, currentRoom.id)}
          /\ out' = <<Log(s, "info", "Regenerating animations")>>
          /\ UNCHANGED <<users, rooms, items, tempRoomDataMap, tempItemDataMap, activeBattles,
                         battleData, timers>>

\* .then(...) of the promise handleObjConfirm started, when the room the user stands in
\* is found
GenerationCompleted(g) ==
  LET u == g.user
      users1 == updateUserState(users, u, "IDLE")
      refreshedRoom == getRoom(rooms, users1[u].current_q, users1[u].current_r,
                               g.player.server_code)
  IN /\ tempRoomDataMap' = Del(tempRoomDataMap, u)
     /\ tempItemDataMap' = Del(tempItemDataMap, u)
     /\ users' = users1
     /\ out' = <<Log(g.sock, "info", "The world is complete. You may explore."),
                 StateUpdate(g.sock, users1, u)>>
               \o (IF \E a \in animations' : a.room_id = refreshedRoom.id
                                             /\ a.type = "TAPESTRY"
                   THEN <<Ev(g.sock, "animation:play", "TAPESTRY", refreshedRoom.id)>>
                   ELSE <<>>)

\* variant: the rejection is not handled
GenerationFailed_unhandled(g) ==
  /\ out' = <<>>
  /\ UNCHANGED <<users, tempRoomDataMap, tempItemDataMap>>

\* .catch(...) of that promise
GenerationFailed(g) ==
  LET u == g.user
      users1 == updateUserState(users, u, "IDLE")
  IN /\ tempRoomDataMap' = Del(tempRoomDataMap, u)
     /\ tempItemDataMap' = Del(tempItemDataMap, u)
     /\ users' = users1
     /\ out' = <<Log(g.sock, "info",
                     "The world is complete. (Animations could not be generated)"),
                 StateUpdate(g.sock, users1, u)>>

\* the promise settles: .then when fulfilled, .catch when rejected, and .catch again when
\* .then throws on refreshedRoom.id of undefined, its writes done and nothing emitted
GenerationSettled(g, ok) ==
  LET user == users[g.user]
  IN IF ok /\ RoomsAt(rooms, user.current_q, user.current_r, g.player.server_code) # {}
     THEN GenerationCompleted(g)
     ELSE GenerationFailed(g)

\* the end of handleRegenerate: after Promise.all when ok, its outer catch otherwise
RegenerateSettled(g, ok) ==
  /\ out' = IF ok
            THEN <<Log(g.sock, "info", "Animations and room symbol regenerated successfully!"),
                   StateUpdateOf(g.sock, g.player)>>
                 \o (IF \E a \in animations' : a.room_id = g.room /\ a.type = "TAPESTRY"
                     THEN <<Ev(g.sock, "animation:play", "TAPESTRY", g.room)>>
                     ELSE <<>>)
            ELSE <<Log(g.sock, "error", "Failed to regenerate animations")>>
  /\ UNCHANGED <<users, tempRoomDataMap, tempItemDataMap>>

\* the batch g is over, as g1: its promise settles
BatchSettled(g, g1, ok) ==
  /\ generating' = generating \ {g}
  /\ IF g.kind = "wizard" THEN GenerationSettled(g, ok) ELSE RegenerateSettled(g, ok)
  /\ last' = [Handled("generation", g.user, NoValue, {g.kind}, g.room)
                EXCEPT !.batch = Settled(g1)]

\* the batch goes on, as g1
BatchContinues(g, g1, kind) ==
  /\ generating' = (generating \ {g}) \cup {g1}
  /\ out' = <<>>
  /\ last' = Handled(kind, g.user, NoValue, {g.kind}, g.room)
  /\ UNCHANGED <<users, tempRoomDataMap, tempItemDataMap>>

\* await aiService.generateRoomSymbol(...) resumes: the service's answer when ok, the
\* fallback symbol the service function returns in place of any error otherwise
SymbolReturned(g, ok) ==
  /\ g \in generating
  /\ g.phase = "symbol"
  /\ rooms' = updateRoomSymbol(rooms, g.room, IF ok THEN "glyph" ELSE "pin")
  /\ BatchContinues(g, [g EXCEPT !.phase = "tapestry"], "symbol")
  /\ UNCHANGED <<items, socketUserMap, activeBattles, battleData, timers, animations>>

\* await aiService.generateRoomTapestry(...) resumes with frames when ok, throws otherwise;
\* with frames, the calls of all the items are started
TapestryReturned(g, ok) ==
  /\ g \in generating
  /\ g.phase = "tapestry"
  /\ animations' = IF ok THEN createAnimation(animations, Tapestry(g.room)) ELSE animations
  /\ IF ~ok
     THEN BatchSettled(g, [g EXCEPT !.tapestry = "thrown"], FALSE)
     ELSE IF g.items = {}
     THEN BatchSettled(g, [g EXCEPT !.tapestry = "frames"], TRUE)
     ELSE BatchContinues(g, [g EXCEPT !.phase = "items", !.tapestry = "frames",
                                      !.waiting = g.items], "tapestry")
  /\ UNCHANGED <<rooms, items, socketUserMap, activeBattles, battleData, timers>>

\* variant: the throw of one item's call is not caught and rejects Promise.all
InteractionReturned_uncaught(g, itemId, ok) ==
  /\ g \in generating
  /\ g.phase = "items"
  /\ itemId \in g.waiting
  /\ LET saved == ok /\ ItemsWithId(items, itemId) # {}
         g1 == [g EXCEPT !.waiting = @ \ {itemId},
                         !.thrown = IF saved THEN @ ELSE @ \cup {itemId}]
     IN /\ animations' = IF saved THEN createAnimation(animations, Interaction(g.room, itemId))
                         ELSE animations
        /\ IF ~saved
           THEN BatchSettled(g, g1, FALSE)
           ELSE IF g1.waiting = {}
           THEN BatchSettled(g, g1, TRUE)
           ELSE BatchContinues(g, g1, "interaction")
  /\ UNCHANGED <<rooms, items, socketUserMap, activeBattles, battleData, timers>>

\* await aiService.generateObjectInteraction(item) resumes with frames when ok, throws
\* otherwise; the throw, and the throw of the insert for an item that is gone, are caught
InteractionReturned(g, itemId, ok) ==
  /\ g \in generating
  /\ g.phase = "items"
  /\ itemId \in g.waiting
  /\ LET saved == ok /\ ItemsWithId(items, itemId) # {}
         g1 == [g EXCEPT !.waiting = @ \ {itemId},
                         !.thrown = IF saved THEN @ ELSE @ \cup {itemId}]
     IN /\ animations' = IF saved THEN createAnimation(animations, Interaction(g.room, itemId))
                         ELSE animations
        /\ IF g1.waiting = {}
           THEN BatchSettled(g, g1, TRUE)
           ELSE BatchContinues(g, g1, "interaction")
  /\ UNCHANGED <<rooms, items, socketUserMap, activeBattles, battleData, timers>>

\* --------------------------------------------------------------- combat
\* variant: Math.floor(d / 2)
CeilHalf_floor(d) == d \div 2

\* Math.ceil(d / 2) for d >= 0
CeilHalf(d) == IF d % 2 = 0 THEN d \div 2 ELSE d \div 2 + 1

\* the resolve phase of one tick: damage and who dealt it
Resolve(playerRoll, enemyRoll) ==
  LET delta == Abs(playerRoll - enemyRoll)
  IN IF playerRoll > enemyRoll THEN [damage |-> CeilHalf(delta) + 1, source |-> "player"]
     ELSE IF enemyRoll > playerRoll THEN [damage |-> CeilHalf(delta), source |-> "enemy"]
     ELSE [damage |-> 0, source |-> "tie"]

\* variant: the player awakens where they fell
handlePlayerDeath_inPlace(tbl, userId) ==
  updateUserState(updateUserStats(tbl, userId, [hp |-> tbl[userId].max_hp]), userId, "IDLE")

\* the writes of handlePlayerDeath
handlePlayerDeath(tbl, userId) ==
  updateUserState(
    updateUserPosition(updateUserStats(tbl, userId, [hp |-> tbl[userId].max_hp]), userId, 0, 0),
    userId, "IDLE")

\* variant: a battle begins whatever the enemy hit points of the target
handleFight_peaceful(s, u, targetName) ==
  LET user == users[u]
      here == RoomsAt(rooms, user.current_q, user.current_r, user.server_code)
      roomItems == IF here = {} THEN {}
                   ELSE getRoomItems(items, getRoom(rooms, user.current_q, user.current_r,
                                                    user.server_code).id, user.server_code)
      matches == {i \in roomItems : i.name = targetName}
  IN IF isInCombat(u)
     THEN Emits(<<Log(s, "error", "You are already in combat!")>>)
     ELSE IF user.state # "IDLE" /\ user.state # "COMBAT"
     THEN Emits(<<Log(s, "error", "Cannot fight while in this state.")>>)
     ELSE IF here = {}
     THEN Emits(<<Log(s, "error", "You are in undefined space.")>>)
     ELSE IF matches = {}
     THEN Emits(<<Log(s, "error", "You don't see it here.")>>)
     ELSE LET target == InOrder(matches)[1]
          IN /\ FreeTimers # {}
             /\ users' = updateUserState(users, u, "COMBAT")
             /\ SetCombatState(startBattle(
                  setInterval(CombatState, [id |-> FreshTimer, user |-> u,
                                            sock |-> s, target |-> target.id]),
                  u, s, target.id, FreshTimer))
             /\ out' = <<Log(s, "info", "Combat begins!")>>
             /\ UNCHANGED <<rooms, items, tempRoomDataMap, tempItemDataMap, generating,
                            animations>>

handleFight(s, u, targetName) ==
  LET user == users[u]
      here == RoomsAt(rooms, user.current_q, user.current_r, user.server_code)
      roomItems == IF here = {} THEN {}
                   ELSE getRoomItems(items, getRoom(rooms, user.current_q, user.current_r,
                                                    user.server_code).id, user.server_code)
      matches == {i \in roomItems : i.name = targetName}
  IN IF isInCombat(u)
     THEN Emits(<<Log(s, "error", "You are already in combat!")>>)
     ELSE IF user.state # "IDLE" /\ user.state # "COMBAT"
     THEN Emits(<<Log(s, "error", "Cannot fight while in this state.")>>)
     ELSE IF here = {}
     THEN Emits(<<Log(s, "error", "You are in undefined space.")>>)
     ELSE IF matches = {}
     THEN Emits(<<Log(s, "error", "You don't see it here.")>>)
     ELSE LET target == InOrder(matches)[1]
          IN IF target.enemy_hp <= 0
             THEN Emits(<<Log(s, "info", "That is peaceful.")>>)
             ELSE /\ FreeTimers # {}
                  /\ users' = updateUserState(users, u, "COMBAT")
                  /\ SetCombatState(startBattle(
                       setInterval(CombatState, [id |-> FreshTimer, user |-> u,
                                                 sock |-> s, target |-> target.id]),
                       u, s, target.id, FreshTimer))
                  /\ out' = <<Log(s, "info", "Combat begins!")>>
                  /\ UNCHANGED <<rooms, items, tempRoomDataMap, tempItemDataMap, generating,
                                 animations>>

\* variant: the enemy of the battle recovers when its opponent retreats
handleRetreat_restoring(s, u) ==
  IF ~isInCombat(u)
  THEN Emits(<<Log(s, "error", "You are not in combat.")>>)
  ELSE /\ SetCombatState(endBattle(CombatState, u))
       /\ users' = updateUserState(users, u, "IDLE")
       /\ items' = {IF i.id = battleData[u].enemyId THEN [i EXCEPT !.enemy_hp = i.enemy_max_hp]
                    ELSE i : i \in items}
       /\ out' = <<Ev(s, "combat:end", "retreat", 0),
                   Log(s, "info", "You escaped with your life.")>>
                 \o (IF RoomsAt(rooms, users[u].current_q, users[u].current_r,
                                users[u].server_code) = {}
                     THEN <<>>
                     ELSE <<StateUpdate(s, users', u)>>)
       /\ UNCHANGED <<rooms, tempRoomDataMap, tempItemDataMap, generating, animations>>

handleRetreat(s, u) ==
  IF ~isInCombat(u)
  THEN Emits(<<Log(s, "error", "You are not in combat.")>>)
  ELSE /\ SetCombatState(endBattle(CombatState, u))
       /\ users' = updateUserState(users, u, "IDLE")
       /\ out' = <<Ev(s, "combat:end", "retreat", 0),
                   Log(s, "info", "You escaped with your life.")>>
                 \o (IF RoomsAt(rooms, users[u].current_q, users[u].current_r,
                                users[u].server_code) = {}
                     THEN <<>>    \* updatedRoom.id of undefined throws after the writes
                     ELSE <<StateUpdate(s, users', u)>>)
       /\ UNCHANGED <<rooms, items, tempRoomDataMap, tempItemDataMap, generating,
                                 animations>>

\* the callback of the interval started by handleFight, with the two dice it rolls
Tick(t, playerDie, enemyDie) ==
  /\ t \in timers
  /\ LET u == t.user
         s == t.sock
         currentUser == users[u]
         here == RoomsAt(rooms, currentUser.current_q, currentUser.current_r,
                         currentUser.server_code)
         \* clearInterval(interval); combatState.endBattle(user.id)
         ended == endBattle([CombatState EXCEPT !.timers = clearInterval(@, t.id)], u)
     IN /\ last' = Handled("tick", u, NoValue, {"combat"}, t.target)
        /\ IF here = {}
           THEN /\ SetCombatState(ended)
                /\ out' = <<>>
                /\ UNCHANGED <<users, items, animations>>
           ELSE LET currentRoom == getRoom(rooms, currentUser.current_q, currentUser.current_r,
                                           currentUser.server_code)
                    found == {i \in getRoomItems(items, currentRoom.id, currentUser.server_code) :
                                i.id = t.target}
                IN IF found = {} \/ (\A i \in found : i.enemy_hp <= 0)
                   THEN /\ SetCombatState(ended)
                        /\ users' = updateUserState(users, u, "IDLE")
                        /\ out' = <<>>
                        /\ UNCHANGED <<items, animations>>
                   ELSE LET currentEnemy == CHOOSE i \in found : TRUE
                            playerRoll == playerDie + currentUser.strength
                            enemyRoll == enemyDie + currentEnemy.enemy_attack
                            res == Resolve(playerRoll, enemyRoll)
                            items1 == IF res.source = "player"
                                      THEN updateItemEnemyHp(items, currentEnemy.id,
                                             Max(0, currentEnemy.enemy_hp - res.damage))
                                      ELSE items
                            users1 == IF res.source = "enemy"
                                      THEN updateUserStats(users, u,
                                             [hp |-> Max(0, currentUser.hp - res.damage)])
                                      ELSE users
                            updatedEnemy == CHOOSE i \in ItemsWithId(items1, currentEnemy.id) : TRUE
                            updatedUser == users1[u]
                            update == Ev(s, "combat:update", res.source,
                                         [playerHp |-> updatedUser.hp,
                                          playerMaxHp |-> updatedUser.max_hp,
                                          enemyHp |-> updatedEnemy.enemy_hp,
                                          enemyMaxHp |-> updatedEnemy.enemy_max_hp,
                                          playerRoll |-> playerRoll, enemyRoll |-> enemyRoll,
                                          damage |-> res.damage])
                            xpReward == IF currentEnemy.xp_value = 0 THEN DefaultXp
                                        ELSE currentEnemy.xp_value
                        IN IF updatedEnemy.enemy_hp <= 0
                           THEN \* VICTORY
                                /\ SetCombatState(ended)
                                /\ users' = updateUserState(
                                              updateUserStats(users1, u,
                                                [gold |-> updatedUser.gold + xpReward]),
                                              u, "IDLE")
                                /\ items' = deleteItem(items1, currentEnemy.id)
                                /\ animations' = deleteItemAnimations(animations,
                                                                      currentEnemy.id)
                                /\ out' = <<update,
                                            Log(s, "info", "You defeated the enemy!"),
                                            Ev(s, "combat:end", "win", xpReward),
                                            StateUpdate(s, users', u)>>
                           ELSE IF updatedUser.hp <= 0
                           THEN \* DEFEAT
                                /\ SetCombatState(ended)
                                /\ users' = handlePlayerDeath(users1, u)
                                /\ items' = items1
                                /\ animations' = animations
                                /\ out' = <<update,
                                            Ev(s, "combat:end", "loss", 0),
                                            Log(s, "error", "You have fallen."),
                                            StateUpdate(s, users', u),
                                            Log(s, "info", "You awaken at The Crash Site.")>>
                           ELSE /\ users' = users1
                                /\ items' = items1
                                /\ out' = <<update>>
                                /\ UNCHANGED <<activeBattles, battleData, timers, animations>>
  /\ UNCHANGED <<rooms, socketUserMap, tempRoomDataMap, tempItemDataMap, generating>>

\* ---------------------------------------------------------- interaction
\* getItemByName, then the inventory: the rows that `item` is the first of
ItemsNamed(u, roomId, objectName) ==
  LET user == users[u]
      inRoom == {i \in getRoomItems(items, roomId, user.server_code) : i.name = objectName}
  IN IF inRoom # {} THEN inRoom
     ELSE {i \in getUserInventory(items, u, user.server_code) : i.name = objectName}

\* variant: the verb of the command is not compared with the verb of the item
handleInteraction_anyVerb(s, u, verb, objectName) ==
  LET user == users[u]
      serverCode == user.server_code
      here == RoomsAt(rooms, user.current_q, user.current_r, serverCode)
      currentRoom == getRoom(rooms, user.current_q, user.current_r, serverCode)
      item == InOrder(ItemsNamed(u, currentRoom.id, objectName))[1]
      hasRequired == \E i \in getUserInventory(items, u, serverCode) : i.id = item.required_item_id
      users1 == CASE item.effect_type = "GOLD" ->
                       updateUserStats(users, u, [gold |-> user.gold + item.effect_value])
                  [] item.effect_type = "HEAL" ->
                       updateUserStats(users, u, [hp |-> Min(user.max_hp, user.hp + item.effect_value)])
                  [] item.effect_type = "DAMAGE" ->
                       updateUserStats(users, u, [hp |-> Max(0, user.hp - item.effect_value)])
                  [] OTHER -> users
      items1 == IF item.effect_type # "ITEM" THEN items
                ELSE IF item.is_infinite THEN cloneItemForUser(items, item, u)
                ELSE setItemOwner(items, item.id, u, 0)
  IN IF here = {}
     THEN Emits(<<Log(s, "error", "You are not in a valid room.")>>)
     ELSE IF ItemsNamed(u, currentRoom.id, objectName) = {}
     THEN Emits(<<Log(s, "error", "You don't see it here.")>>)
     ELSE IF item.required_item_id # 0 /\ ~hasRequired
     THEN Emits(<<Log(s, "error", "You need a specific item to do that.")>>)
     ELSE IF item.effect_type = "ITEM" /\ item.room_id = 0
     THEN Emits(<<Log(s, "error", "You already have it.")>>)
     ELSE /\ item.effect_type = "ITEM" /\ item.is_infinite => Cardinality(items) < MaxItems
          /\ item.effect_type = "GOLD" => Abs(user.gold + item.effect_value) <= MaxGold
          /\ users' = users1
          /\ items' = items1
          /\ out' = (IF item.effect_type = "DAMAGE" /\ users1[u].hp = 0
                     THEN <<Log(s, "error", "You have been defeated!")>> ELSE <<>>)
                    \o (IF \E a \in animations : a.object_id = item.id /\ a.type = "INTERACTION"
                        THEN <<Ev(s, "animation:play", "INTERACTION", item.id)>> ELSE <<>>)
                    \o <<Log(s, "info", "success"), StateUpdate(s, users1, u)>>
          /\ UNCHANGED <<rooms, tempRoomDataMap, tempItemDataMap, activeBattles, battleData,
                         timers, generating, animations>>

handleInteraction(s, u, verb, objectName) ==
  LET user == users[u]
      serverCode == user.server_code
      here == RoomsAt(rooms, user.current_q, user.current_r, serverCode)
      currentRoom == getRoom(rooms, user.current_q, user.current_r, serverCode)
      item == InOrder(ItemsNamed(u, currentRoom.id, objectName))[1]
      hasRequired == \E i \in getUserInventory(items, u, serverCode) : i.id = item.required_item_id
      users1 == CASE item.effect_type = "GOLD" ->
                       updateUserStats(users, u, [gold |-> user.gold + item.effect_value])
                  [] item.effect_type = "HEAL" ->
                       updateUserStats(users, u, [hp |-> Min(user.max_hp, user.hp + item.effect_value)])
                  [] item.effect_type = "DAMAGE" ->
                       updateUserStats(users, u, [hp |-> Max(0, user.hp - item.effect_value)])
                  [] OTHER -> users
      items1 == IF item.effect_type # "ITEM" THEN items
                ELSE IF item.is_infinite THEN cloneItemForUser(items, item, u)
                ELSE setItemOwner(items, item.id, u, 0)
  IN IF here = {}
     THEN Emits(<<Log(s, "error", "You are not in a valid room.")>>)
     ELSE IF ItemsNamed(u, currentRoom.id, objectName) = {}
     THEN Emits(<<Log(s, "error", "You don't see it here.")>>)
     ELSE IF item.interact_verb # verb
     THEN Emits(<<Log(s, "error", "You can't do that.")>>)
     ELSE IF item.required_item_id # 0 /\ ~hasRequired
     THEN Emits(<<Log(s, "error", "You need a specific item to do that.")>>)
     ELSE IF item.effect_type = "ITEM" /\ item.room_id = 0
     THEN Emits(<<Log(s, "error", "You already have it.")>>)
     ELSE /\ item.effect_type = "ITEM" /\ item.is_infinite => Cardinality(items) < MaxItems
          /\ item.effect_type = "GOLD" => Abs(user.gold + item.effect_value) <= MaxGold
          /\ users' = users1
          /\ items' = items1
          /\ out' = (IF item.effect_type = "DAMAGE" /\ users1[u].hp = 0
                     THEN <<Log(s, "error", "You have been defeated!")>> ELSE <<>>)
                    \o (IF \E a \in animations : a.object_id = item.id /\ a.type = "INTERACTION"
                        THEN <<Ev(s, "animation:play", "INTERACTION", item.id)>> ELSE <<>>)
                    \o <<Log(s, "info", "success"), StateUpdate(s, users1, u)>>
          /\ UNCHANGED <<rooms, tempRoomDataMap, tempItemDataMap, activeBattles, battleData,
                         timers, generating, animations>>

\* ----------------------------------------------------------- dispatcher
\* "open <n>", "<verb> <n>": the n-th item of the room, or no such item
ItemTarget(u, word) ==
  LET user == users[u]
      targetNum == ParseInt(word)
      here == RoomsAt(rooms, user.current_q, user.current_r, user.server_code)
      roomItems == IF here = {} THEN <<>>
                   ELSE InOrder(getRoomItems(items,
                                  getRoom(rooms, user.current_q, user.current_r,
                                          user.server_code).id, user.server_code))
  IN IF targetNum.nan \/ targetNum.n <= 0 \/ here = {}
     THEN [found |-> TRUE, name |-> word]
     ELSE IF targetNum.n <= Len(roomItems)
     THEN [found |-> TRUE, name |-> roomItems[targetNum.n].name]
     ELSE [found |-> FALSE, name |-> word]

\* "fight <n>": the n-th living enemy of the room, or no such enemy
FightTarget(u, word) ==
  LET user == users[u]
      targetNum == ParseInt(word)
      here == RoomsAt(rooms, user.current_q, user.current_r, user.server_code)
      enemyItems == IF here = {} THEN <<>>
                    ELSE InOrder({i \in getRoomItems(items,
                                      getRoom(rooms, user.current_q, user.current_r,
                                              user.server_code).id, user.server_code) :
                                    i.enemy_hp > 0})
  IN IF targetNum.nan \/ targetNum.n <= 0 \/ here = {}
     THEN [found |-> TRUE, name |-> word]
     ELSE IF targetNum.n <= Len(enemyItems)
     THEN [found |-> TRUE, name |-> enemyItems[targetNum.n].name]
     ELSE [found |-> FALSE, name |-> word]

\* socket.on('cmd:input')
CmdInput(s, raw) ==
  /\ Has(socketUserMap, s)
  /\ LET u == socketUserMap[s]
         words == Words(raw)
     IN IF IsCreationState(users[u].state)
        THEN /\ handleInput(s, u, raw)
             /\ last' = Handled("cmd", u, raw, {"creation"}, 0)
        ELSE IF raw = "help" \/ raw = "look" \/ raw = "l" \/ words[1] = "look"
        THEN /\ Emits(<<Log(s, "info", "general")>>)
             /\ last' = Handled("cmd", u, raw, {"general"}, 0)
        ELSE IF raw = "regenerate" \/ raw = "/regenerate"
        THEN /\ handleRegenerate(s, u)
             /\ last' = Handled("cmd", u, raw, {"general"}, 0)
        ELSE IF MoveHandled(u, raw)
        THEN /\ handleMove(s, u, raw)
             /\ last' = Handled("cmd", u, raw, {"movement"}, 0)
        ELSE IF words[1] = "fight" /\ Len(words) >= 2
        THEN IF FightTarget(u, words[2]).found
             THEN /\ handleFight(s, u, FightTarget(u, words[2]).name)
                  /\ last' = Handled("cmd", u, raw, {"movement", "combat"}, 0)
             ELSE /\ Emits(<<Log(s, "error", "No enemy at that position.")>>)
                  /\ last' = Handled("cmd", u, raw, {"movement"}, 0)
        ELSE IF raw = "retreat" \/ raw = "/retreat"
        THEN /\ handleRetreat(s, u)
             /\ last' = Handled("cmd", u, raw, {"movement", "combat"}, 0)
        ELSE IF Len(words) >= 2 /\ words[1] \notin {"go", "help", "fight"}
        THEN IF ItemTarget(u, words[2]).found
             THEN /\ handleInteraction(s, u, words[1], ItemTarget(u, words[2]).name)
                  /\ last' = Handled("cmd", u, raw, {"movement", "interaction"}, 0)
             ELSE /\ Emits(<<Log(s, "error", "No object at that position.")>>)
                  /\ last' = Handled("cmd", u, raw, {"movement"}, 0)
        ELSE /\ Emits(<<Log(s, "error", "Unknown command")>>)
             /\ last' = Handled("cmd", u, raw, {"movement"}, 0)
  /\ UNCHANGED socketUserMap

\* socket.on('combat:retreat')
RetreatEvent(s) ==
  /\ Has(socketUserMap, s)
  /\ handleRetreat(s, socketUserMap[s])
  /\ last' = Handled("combat:retreat", socketUserMap[s], NoValue, {"combat"}, 0)
  /\ UNCHANGED socketUserMap

\* ---------------------------------------------------------- connections
ensureGenesisRoom(rms, serverCode, creatorId) ==
  IF RoomsAt(rms, 0, 0, serverCode) = {}
  THEN createRoom(rms, [q |-> 0, r |-> 0, server_code |-> serverCode,
                        title |-> "The Crash Site", description |-> "wreckage",
                        shroud_level |-> 0, created_by |-> creatorId])
  ELSE rms

\* io.on('connection') for a verified user
Connect(u) ==
  /\ FreeSockets # {}
  /\ LET s == FreshSocket
         serverCode == users[u].server_code
         rooms1 == ensureGenesisRoom(rooms, serverCode, "system")
         inVoid == RoomsAt(rooms1, users[u].current_q, users[u].current_r, serverCode) = {}
     IN /\ socketUserMap' = Put(socketUserMap, s, u)
        /\ rooms' = rooms1
        /\ users' = IF inVoid THEN updateUserPosition(users, u, 0, 0) ELSE users
        /\ out' = <<Log(s, "info", "Welcome back"), StateUpdate(s, users', u)>>
        /\ last' = Handled("connect", u, NoValue, {}, 0)
  /\ UNCHANGED <<items, tempRoomDataMap, tempItemDataMap, activeBattles, battleData,
                 timers, generating, animations>>

\* store.deleteSession(socketId)
deleteSession(socketId) ==
  /\ tempRoomDataMap' = Del(tempRoomDataMap, socketUserMap[socketId])
  /\ tempItemDataMap' = Del(tempItemDataMap, socketUserMap[socketId])
  /\ socketUserMap' = Del(socketUserMap, socketId)

\* socket.on('disconnect')
Disconnect(s) ==
  /\ Has(socketUserMap, s)
  /\ deleteSession(s)
  /\ out' = <<>>
  /\ last' = Handled("disconnect", socketUserMap[s], NoValue, {}, 0)
  /\ UNCHANGED <<users, rooms, items, activeBattles, battleData, timers, generating, animations>>

\* a restart of the server process: the database file stays, the module-level maps,
\* the sockets, the intervals and the pending promises are gone
Restart ==
  /\ socketUserMap' = EmptyMap
  /\ tempRoomDataMap' = EmptyMap
  /\ tempItemDataMap' = EmptyMap
  /\ activeBattles' = EmptyMap
  /\ battleData' = EmptyMap
  /\ timers' = {}
  /\ generating' = {}
  /\ out' = <<>>
  /\ last' = [kind |-> "restart", user |-> NoValue, mode |-> NoValue, raw |-> NoValue,
               inCombat |-> FALSE, handlers |-> {}, target |-> 0, batch |-> NoBatch]
  /\ UNCHANGED <<users, rooms, items, animations>>

\* ---------------------------------------------------------------- specs
\* one player explores and fights: the lair south of the origin is entered, its enemy
\* fought with every pair of dice
Next ==
  \/ Connect("u1")
  \/ \E s \in DOMAIN socketUserMap : Disconnect(s)
  \/ \E s \in DOMAIN socketUserMap : \E raw \in CombatInputs : CmdInput(s, raw)
  \/ \E s \in DOMAIN socketUserMap : RetreatEvent(s)
  \/ \E t \in timers : \E playerDie \in 1..DieSides : \E enemyDie \in 1..DieSides :
       Tick(t, playerDie, enemyDie)

Spec == InitDuel /\ [][Next]_vars

\* the same player, on a server that is restarted now and then
NextRestart == Next \/ Restart

SpecRestart == InitDuel /\ [][NextRestart]_vars

\* two players explore and fight the same enemy
NextRivals ==
  \/ \E u \in UserIds : Connect(u)
  \/ \E s \in DOMAIN socketUserMap : Disconnect(s)
  \/ \E s \in DOMAIN socketUserMap : \E raw \in RivalInputs : CmdInput(s, raw)
  \/ \E s \in DOMAIN socketUserMap : RetreatEvent(s)
  \/ \E t \in timers : \E playerDie \in RivalDice : \E enemyDie \in RivalDice :
       Tick(t, playerDie, enemyDie)

SpecRivals == Init /\ [][NextRivals]_vars

\* two players, one connection each, fight the same enemy with every face of the dice
NextSiege ==
  \/ \E u \in UserIds : (\A s \in DOMAIN socketUserMap : socketUserMap[s] # u) /\ Connect(u)
  \/ \E s \in DOMAIN socketUserMap : \E raw \in RivalInputs : CmdInput(s, raw)
  \/ \E s \in DOMAIN socketUserMap : RetreatEvent(s)
  \/ \E t \in timers : \E playerDie \in 1..DieSides : \E enemyDie \in 1..DieSides :
       Tick(t, playerDie, enemyDie)

SpecSiege == Init /\ [][NextSiege]_vars

\* two players explore and author: the void north of the origin is entered, rooms are
\* authored without objects
WorldInputsIn(mode) ==
  IF mode = "IDLE" THEN WorldInputs
  ELSE IF mode \in {"CREATING_ROOM_TITLE", "CREATING_ROOM_DESC"} THEN TextInputs
  ELSE WizardInputs

NextWorld ==
  \/ \E u \in UserIds : Connect(u)
  \/ \E s \in DOMAIN socketUserMap : Disconnect(s)
  \/ \E s \in DOMAIN socketUserMap :
       \E raw \in WorldInputsIn(users[socketUserMap[s]].state) : CmdInput(s, raw)
  \/ \E s \in DOMAIN socketUserMap : RetreatEvent(s)
  \/ \E g \in generating : SymbolReturned(g, TRUE)
  \/ \E g \in generating : \E ok \in BOOLEAN : TapestryReturned(g, ok)

SpecWorld == Init /\ [][NextWorld]_vars

\* one player authors a room north of the origin and its objects, object by object, and
\* the art service answers or fails call by call
AuthorInputsIn(mode) ==
  CASE mode = "IDLE" -> {"n", "open gate"}
    [] mode \in {"CREATING_ROOM_MOOD", "CREATING_ROOM_SHROUD"} -> {"2", "2x", "9", "n"}
    [] mode = "CREATING_OBJ_CONFIRM" -> {"y", "n", "2"}
    [] mode = "CREATING_OBJ_NAME" -> {"gate"}
    [] mode = "CREATING_OBJ_TYPE" -> {"1", "2", "3", "4", "5", "6", "2x", "9", "n"}
    [] mode = "CREATING_OBJ_VALUE" -> {"2", "-1", "n"}
    [] mode = "CREATING_OBJ_ENEMY_STATS" -> {"3 2 1", "3 2", "3 0 1"}
    [] mode = "CREATING_OBJ_SUPPLY_TYPE" -> {"1", "2", "2x", "9"}
    [] mode = "CREATING_OBJ_REQUIREMENT" -> {"key", "gate"}
    [] mode = "CREATING_OBJ_VERB" -> {"open"}
    [] mode = "CREATING_OBJ_VERB_CONFIRM" -> {"y", "open"}
    [] OTHER -> TextInputs

NextAuthor ==
  \/ Connect("u1")
  \/ \E s \in DOMAIN socketUserMap : Disconnect(s)
  \/ \E s \in DOMAIN socketUserMap :
       \E raw \in AuthorInputsIn(users[socketUserMap[s]].state) : CmdInput(s, raw)
  \/ \E g \in generating : \E ok \in BOOLEAN : SymbolReturned(g, ok)
  \/ \E g \in generating : \E ok \in BOOLEAN : TapestryReturned(g, ok)
  \/ \E g \in generating : \E i \in g.waiting : \E ok \in BOOLEAN : InteractionReturned(g, i, ok)

SpecAuthor == InitAuthor /\ [][NextAuthor]_vars

\* the same player authors rooms without objects (a room authored over the origin,
\* after a reconnect in the void, holds the key), on an art service whose calls all
\* return or fail in the end
ArtInputsIn(mode) ==
  CASE mode = "CREATING_ROOM_TITLE" -> {"hall"}
    [] mode = "CREATING_ROOM_DESC" -> {"dark"}
    [] mode = "CREATING_ROOM_MOOD" -> {"2"}
    [] mode = "CREATING_ROOM_SHROUD" -> {"3"}
    [] OTHER -> TextInputs

NextArt ==
  \/ Connect("u1")
  \/ \E s \in DOMAIN socketUserMap : Disconnect(s)
  \/ \E s \in DOMAIN socketUserMap :
       \E raw \in ArtInputsIn(users[socketUserMap[s]].state) : CmdInput(s, raw)
  \/ \E g \in generating : \E ok \in BOOLEAN : SymbolReturned(g, ok)
  \/ \E g \in generating : \E ok \in BOOLEAN : TapestryReturned(g, ok)
  \/ \E g \in generating : \E i \in g.waiting : \E ok \in BOOLEAN : InteractionReturned(g, i, ok)

\* the pending call of batch b returns or fails
ArtReturns(b) ==
  \E g \in generating :
    /\ g.id = b
    /\ \E ok \in BOOLEAN : \/ SymbolReturned(g, ok)
                           \/ TapestryReturned(g, ok)
                           \/ \E i \in g.waiting : InteractionReturned(g, i, ok)

SpecArt == InitAuthor /\ [][NextArt]_vars /\ \A b \in 1..MaxBatches : WF_vars(ArtReturns(b))

\* the same player authors a room and its objects on a connection that stays up, with an
\* art service that answers every call: every menu of the wizard is put to the test
MenuInputsIn(mode) ==
  CASE mode \in {"CREATING_ROOM_MOOD", "CREATING_ROOM_SHROUD"} -> {"2", "2x", "9", "n"}
    [] mode = "CREATING_OBJ_CONFIRM" -> {"y", "n"}
    [] mode = "CREATING_OBJ_NAME" -> {"gate"}
    [] mode = "CREATING_OBJ_TYPE" -> {"1", "4", "5", "2x", "9", "n"}
    [] mode = "CREATING_OBJ_VALUE" -> {"2"}
    [] mode = "CREATING_OBJ_ENEMY_STATS" -> {"3 2 1", "3 2", "3 0 1"}
    [] mode = "CREATING_OBJ_SUPPLY_TYPE" -> {"1", "2", "2x", "9", "n"}
    [] mode = "CREATING_OBJ_VERB_CONFIRM" -> {"y"}
    [] OTHER -> TextInputs

NextMenus ==
  \/ Connect("u1")
  \/ \E s \in DOMAIN socketUserMap :
       \E raw \in MenuInputsIn(users[socketUserMap[s]].state) : CmdInput(s, raw)
  \/ \E g \in generating : SymbolReturned(g, TRUE)
  \/ \E g \in generating : TapestryReturned(g, TRUE)
  \/ \E g \in generating : \E i \in g.waiting : InteractionReturned(g, i, TRUE)

SpecMenus == InitAuthor /\ [][NextMenus]_vars

\* the same player, who may pick up the key at the origin, authors gates north of it: every
\* object is named "gate", is of type 6 and requires "key", a name that matches no item
\* of the room the gate is authored in; a name may also be left blank
GateInputsIn(mode) ==
  CASE mode = "IDLE" -> {"n", "s", "take key", "open gate"}
    [] mode \in {"CREATING_ROOM_MOOD", "CREATING_ROOM_SHROUD"} -> {"2"}
    [] mode = "CREATING_OBJ_CONFIRM" -> {"y", "n"}
    [] mode = "CREATING_OBJ_NAME" -> {"gate", ""}
    [] mode = "CREATING_OBJ_TYPE" -> {"6"}
    [] mode = "CREATING_OBJ_REQUIREMENT" -> {"key"}
    [] mode = "CREATING_OBJ_VERB_CONFIRM" -> {"y"}
    [] OTHER -> TextInputs

NextGate ==
  \/ Connect("u1")
  \/ \E s \in DOMAIN socketUserMap :
       \E raw \in GateInputsIn(users[socketUserMap[s]].state) : CmdInput(s, raw)
  \/ \E g \in generating : SymbolReturned(g, TRUE)
  \/ \E g \in generating : TapestryReturned(g, TRUE)
  \/ \E g \in generating : \E i \in g.waiting : InteractionReturned(g, i, TRUE)

SpecGate == InitAuthor /\ [][NextGate]_vars

\* two players, each on any number of connections, pick up what lies at the origin
ItemInputs == {"take key", "take apple"}

NextItems ==
  \/ \E u \in UserIds : Connect(u)
  \/ \E s \in DOMAIN socketUserMap : Disconnect(s)
  \/ \E s \in DOMAIN socketUserMap : \E raw \in ItemInputs : CmdInput(s, raw)

SpecItems == InitItems /\ [][NextItems]_vars

\* one player, on one connection, does everything that writes the items table: picks up the key and apples,
\* fights the goblin of the lair, and authors a room north of the origin with pickups of
\* its own
StoreInputsIn(mode) ==
  CASE mode = "IDLE" -> {"n", "s", "take key", "take apple", "fight goblin"}
    [] mode \in {"CREATING_ROOM_MOOD", "CREATING_ROOM_SHROUD"} -> {"2"}
    [] mode = "CREATING_OBJ_CONFIRM" -> {"y", "n"}
    [] mode = "CREATING_OBJ_NAME" -> {"gate"}
    [] mode = "CREATING_OBJ_TYPE" -> {"4"}
    [] mode = "CREATING_OBJ_SUPPLY_TYPE" -> {"1", "2"}
    [] mode = "CREATING_OBJ_VERB_CONFIRM" -> {"y"}
    [] OTHER -> TextInputs

NextStore ==
  \/ socketUserMap = EmptyMap /\ Connect("u1")
  \/ \E s \in DOMAIN socketUserMap :
       \E raw \in StoreInputsIn(users[socketUserMap[s]].state) : CmdInput(s, raw)
  \/ \E t \in timers : \E playerDie \in RivalDice : \E enemyDie \in RivalDice :
       Tick(t, playerDie, enemyDie)
  \/ \E g \in generating : SymbolReturned(g, TRUE)
  \/ \E g \in generating : TapestryReturned(g, TRUE)
  \/ \E g \in generating : \E i \in g.waiting : InteractionReturned(g, i, TRUE)

SpecStore == InitStore /\ [][NextStore]_vars

\* the same player does the same in realm "A" of a database that holds realm "B" too
SpecRealms == InitRealms /\ [][NextStore]_vars

\* one player, on one connection, does everything that writes hit points and gold: fights
\* the goblin and retreats, picks up the key, and authors north of the origin buffs and
\* traps named "gate", worth 2 or -1, under the verb "open"
NextEffects ==
  \/ socketUserMap = EmptyMap /\ Connect("u1")
  \/ \E s \in DOMAIN socketUserMap :
       \E raw \in (CASE users[socketUserMap[s]].state = "IDLE" ->
                          {"n", "s", "take key", "open key", "open gate", "fight goblin"}
                     [] users[socketUserMap[s]].state \in
                          {"CREATING_ROOM_MOOD", "CREATING_ROOM_SHROUD"} -> {"2"}
                     [] users[socketUserMap[s]].state = "CREATING_OBJ_CONFIRM" -> {"y", "n"}
                     [] users[socketUserMap[s]].state = "CREATING_OBJ_NAME" -> {"gate"}
                     [] users[socketUserMap[s]].state = "CREATING_OBJ_TYPE" -> {"3"}
                     [] users[socketUserMap[s]].state = "CREATING_OBJ_VALUE" -> {"2", "-1"}
                     [] users[socketUserMap[s]].state = "CREATING_OBJ_VERB_CONFIRM" -> {"open"}
                     [] OTHER -> TextInputs) :
         CmdInput(s, raw)
  \/ \E s \in DOMAIN socketUserMap : RetreatEvent(s)
  \/ \E t \in timers : \E playerDie \in RivalDice : \E enemyDie \in RivalDice :
       Tick(t, playerDie, enemyDie)
  \/ \E g \in generating : SymbolReturned(g, TRUE)
  \/ \E g \in generating : TapestryReturned(g, TRUE)
  \/ \E g \in generating : \E i \in g.waiting : InteractionReturned(g, i, TRUE)

\* at the origin lie the key and a gate that asks for it
SpecEffects ==
  InitOn({GenesisRoom, LairRoom, CellarRoom},
         {Goblin, Key, [Key EXCEPT !.id = 3, !.name = "gate", !.interact_verb = "open",
                                  !.effect_type = "NONE", !.required_item_id = Key.id]})
    /\ [][NextEffects]_vars

\* one player, on one connection, in a world whose lair lists a key before its goblin:
\* targets are given by name and by position
NextArena ==
  \/ socketUserMap = EmptyMap /\ Connect("u1")
  \/ \E s \in DOMAIN socketUserMap :
       \E raw \in {"s", "fight goblin", "fight key", "fight 1", "fight 2", "take 1", "take 2"} :
         CmdInput(s, raw)
  \/ \E s \in DOMAIN socketUserMap : RetreatEvent(s)
  \/ \E t \in timers : \E playerDie \in 1..DieSides : \E enemyDie \in 1..DieSides :
       Tick(t, playerDie, enemyDie)

SpecArena ==
  InitOn({GenesisRoom, LairRoom}, {[Key EXCEPT !.room_id = 2], [Goblin EXCEPT !.id = 3]})
    /\ [][NextArena]_vars

\* one player, on one connection, walks in all six directions and authors, without
\* objects, the rooms of the void
ExploreInputsIn(mode) ==
  IF mode = "IDLE" THEN Directions
  ELSE IF mode \in {"CREATING_ROOM_MOOD", "CREATING_ROOM_SHROUD"} THEN {"2"}
  ELSE TextInputs

NextExplore ==
  \/ socketUserMap = EmptyMap /\ Connect("u1")
  \/ \E s \in DOMAIN socketUserMap :
       \E raw \in ExploreInputsIn(users[socketUserMap[s]].state) : CmdInput(s, raw)
  \/ \E g \in generating : SymbolReturned(g, TRUE)
  \/ \E g \in generating : TapestryReturned(g, TRUE)

SpecExplore == InitAuthor /\ [][NextExplore]_vars

\* one player, at the origin, where the key and the apples lie, on one connection, has
\* the art of the room made anew and picks up the key; the art service answers or fails
\* call by call
RegenInputs == {"regenerate", "take key"}

NextRegen ==
  \/ socketUserMap = EmptyMap /\ Connect("u1")
  \/ \E s \in DOMAIN socketUserMap :
       \E raw \in RegenInputs : CmdInput(s, raw)
  \/ \E g \in generating : \E ok \in BOOLEAN : SymbolReturned(g, ok)
  \/ \E g \in generating : \E ok \in BOOLEAN : TapestryReturned(g, ok)
  \/ \E g \in generating : \E i \in g.waiting : \E ok \in BOOLEAN : InteractionReturned(g, i, ok)

SpecRegen == InitItems /\ [][NextRegen]_vars

\* --------------------------------------------------------------- claims
Connected(u) == \E s \in DOMAIN socketUserMap : socketUserMap[s] = u

TimersOf(tms, u) == {t \in tms : t.user = u}

\* the events of one kind among those a handler emitted
Emitted(evs, ev) == {k \in 1..Len(evs) : evs[k].ev = ev}

\* a step is a combat tick that went through its roll and resolve phases
ResolvedTick == last'.kind = "tick" /\ out' # <<>>

\* the enemy a resolved tick fought, as stored before the tick
EnemyBefore == CHOOSE i \in items : i.id = last'.target

\* C1: after any sequence of fights, retreats, ticks, disconnects and reconnects every
\* user has at most one live combat timer and at most one active-battle record.
C1_OneBattlePerUser ==
  \A u \in UserIds :
    /\ Cardinality(TimersOf(timers, u)) <= 1
    /\ Cardinality({v \in DOMAIN battleData : battleData[v].userId = u}) <= 1

\* a player in battle, reconnected on a second socket, has just asked to fight again
C1_Witness ==
  /\ last.kind = "cmd" /\ last.raw = "fight goblin" /\ last.inCombat
  /\ \E t \in TimersOf(timers, last.user) : ~Has(socketUserMap, t.sock)
  /\ Connected(last.user)
  /\ Has(battleData, last.user)

\* C2: between handler executions a user has an active-battle record exactly when the
\* user's persisted mode is COMBAT.
C2_RegistryMatchesMode ==
  \A u \in UserIds : isInCombat(u) <=> users[u].state = "COMBAT"

\* C3: once the connection of a user in battle is gone, no combat tick of that battle
\* deals damage to the player or to the enemy.
C3_NoDamageAfterDisconnect ==
  ~(/\ last.kind = "tick"
    /\ out # <<>>
    /\ out[1].data.damage > 0
    /\ ~Has(socketUserMap, out[1].sock))

\* C4: the rooms table holds at most one room per (q, r, realm).
C4_OneRoomPerCell ==
  \A a, b \in rooms :
    (a.q = b.q /\ a.r = b.r /\ a.server_code = b.server_code) => a = b

\* C5: an inbound event (cmd:input or combat:retreat) of a user whose mode is a
\* CREATING_* mode or GENERATING_ANIMATIONS is handled by the creation wizard alone.
C5_WizardHandlesAll ==
  (last.kind \in {"cmd", "combat:retreat"} /\ IsCreationState(last.mode))
    => last.handlers \subseteq {"creation"}

\* Math.ceil(d / 2), by its definition: the least integer h with 2h >= d
Ceil2(d) == CHOOSE h \in 0..d : 2 * h >= d /\ \A g \in 0..d : 2 * g >= d => h <= g

C6_TickStep ==
  ResolvedTick =>
    LET u == last'.user
        d == out'[1].data
        delta == Abs(d.playerRoll - d.enemyRoll)
    IN /\ out'[1].ev = "combat:update"
       /\ d.playerRoll - users[u].strength \in 1..DieSides
       /\ d.enemyRoll - EnemyBefore.enemy_attack \in 1..DieSides
       /\ d.playerRoll > d.enemyRoll =>
            /\ out'[1].tag = "player"
            /\ d.damage = Ceil2(delta) + 1
            /\ d.enemyHp = Max(0, EnemyBefore.enemy_hp - d.damage)
            /\ d.playerHp = users[u].hp
       /\ d.enemyRoll > d.playerRoll =>
            /\ out'[1].tag = "enemy"
            /\ d.damage = Ceil2(delta)
            /\ d.playerHp = Max(0, users[u].hp - d.damage)
            /\ d.enemyHp = EnemyBefore.enemy_hp
       /\ d.playerRoll = d.enemyRoll =>
            /\ out'[1].tag = "tie"
            /\ d.damage = 0
            /\ d.playerHp = users[u].hp
            /\ d.enemyHp = EnemyBefore.enemy_hp
       \* while the battle goes on, the stored HP are the reported ones
       /\ Len(out') = 1 =>
            /\ users'[u].hp = d.playerHp
            /\ \E i \in items' : i.id = last'.target /\ i.enemy_hp = d.enemyHp

\* C6: one combat tick rolls d6 + strength against d6 + enemy attack; the higher roll
\* deals ceil(|delta|/2) damage (plus 1 when the player deals it) to the other side's HP,
\* floored at 0, and a tie deals none.
C6_TickDamage == [][C6_TickStep]_vars

\* the player has rolled 3 more than the enemy and dealt ceil(3/2) + 1 = 3
C6_Witness ==
  /\ last.kind = "tick" /\ out # <<>>
  /\ out[1].tag = "player"
  /\ out[1].data.playerRoll - out[1].data.enemyRoll = 3
  /\ out[1].data.damage = 3

C7_VictoryStep ==
  (ResolvedTick /\ out'[1].data.enemyHp <= 0) =>
    LET u == last'.user
    IN /\ Cardinality(Emitted(out', "combat:end")) = 1
       /\ \A k \in Emitted(out', "combat:end") : out'[k].tag = "win"
       /\ users'[u].gold = users[u].gold + EnemyBefore.xp_value
       /\ \A r \in rooms' : \A i \in getRoomItems(items', r.id, r.server_code) :
            i.id # last'.target
       /\ TimersOf(timers', u) = {}
       /\ ~Has(activeBattles', u) /\ ~Has(battleData', u)
       /\ users'[u].state = "IDLE"

\* an item that is gone stays gone
NoItemReturns == \A i \in items' : \E j \in items : j.id = i.id

\* C7: a tick that brings the enemy's HP to 0 ends the battle in victory: one combat:end
\* with result win, gold raised by the enemy's XP value, the enemy absent from every room
\* query from then on, the timer stopped, the battle record cleared, the mode IDLE.
C7_Victory == [][C7_VictoryStep /\ NoItemReturns]_vars

\* the player has just won and holds the enemy's XP value as gold
C7_Witness ==
  /\ last.kind = "tick"
  /\ \E k \in Emitted(out, "combat:end") : out[k].tag = "win"
  /\ users[last.user].gold = SeedXp
  /\ items = {}

C8_DefeatStep ==
  (ResolvedTick /\ out'[1].data.playerHp <= 0 /\ out'[1].data.enemyHp > 0) =>
    LET u == last'.user
    IN /\ users'[u].gold = users[u].gold
       /\ users'[u].hp = users[u].max_hp
       /\ users'[u].max_hp = users[u].max_hp
       /\ users'[u].current_q = 0 /\ users'[u].current_r = 0
       /\ users'[u].state = "IDLE"
       /\ TimersOf(timers', u) = {}
       /\ ~Has(activeBattles', u) /\ ~Has(battleData', u)

\* C8: a tick that leaves the player's HP at 0 with the enemy alive ends the battle in
\* defeat: gold as before the tick, HP back at max HP, coordinate (0,0), mode IDLE, the
\* timer stopped and the battle record cleared.
C8_Defeat == [][C8_DefeatStep]_vars

\* the player has just fallen in the lair and is back at the origin with full HP
C8_Witness ==
  /\ last.kind = "tick"
  /\ \E k \in Emitted(out, "combat:end") : out[k].tag = "loss"
  /\ users[last.user].current_q = 0 /\ users[last.user].current_r = 0
  /\ users[last.user].hp = MaxHp
  /\ users[last.user].state = "IDLE"

\* a step is a retreat, by event or by text, of a user who has an active battle
RetreatInBattle ==
  /\ last'.inCombat
  /\ \/ last'.kind = "combat:retreat"
     \/ last'.kind = "cmd" /\ last'.raw \in {"retreat", "/retreat"}
          /\ "combat" \in last'.handlers

C9_RetreatStep ==
  RetreatInBattle =>
    LET u == last'.user
    IN /\ TimersOf(timers', u) = {}
       /\ \A t \in timers' : t.id # battleData[u].interval
       /\ ~Has(activeBattles', u) /\ ~Has(battleData', u)
       /\ users'[u].state = "IDLE"
       /\ Cardinality(Emitted(out', "combat:end")) = 1
       /\ \A k \in Emitted(out', "combat:end") : out'[k].tag = "retreat"
       /\ users'[u].hp = users[u].hp
       /\ users'[u].gold = users[u].gold
       /\ items' = items

\* C9: a retreat by a user who has an active battle stops the timer (no tick of that
\* battle can fire any more), clears the battle record, sets the mode to IDLE and emits one
\* combat:end with result retreat, leaving the user's HP and gold and the enemy untouched.
C9_Retreat == [][C9_RetreatStep]_vars

\* the player has just retreated from a wounded enemy
C9_Witness ==
  /\ last.kind = "combat:retreat" /\ last.inCombat
  /\ \E k \in Emitted(out, "combat:end") : out[k].tag = "retreat"
  /\ \E i \in items : i.id = Goblin.id /\ i.enemy_hp < i.enemy_max_hp
  /\ timers = {}

\* C10: the text command retreat, sent through cmd:input by a user whose mode is COMBAT
\* and who has an active battle, reaches the combat engine and ends the battle.
C10_TextRetreatEndsBattle ==
  (last.kind = "cmd" /\ last.raw = "retreat" /\ last.mode = "COMBAT" /\ last.inCombat)
    => ("combat" \in last.handlers /\ ~isInCombat(last.user))

\* the items a user finds in the room the user stands in
RoomItemsSeenBy(u) ==
  LET here == RoomsAt(rooms, users[u].current_q, users[u].current_r, users[u].server_code)
  IN IF here = {} THEN {}
     ELSE getRoomItems(items, getRoom(rooms, users[u].current_q, users[u].current_r,
                                      users[u].server_code).id, users[u].server_code)

\* C11: a victory removes the enemy for the winner only: another user who is fighting the
\* same enemy still finds it in the room-item query after the winner's last tick.
C11_VictoryLeavesRivalsEnemy ==
  (last.kind = "tick" /\ \E k \in Emitted(out, "combat:end") : out[k].tag = "win")
    => \A v \in UserIds \ {last.user} :
         (Has(battleData, v) /\ battleData[v].enemyId = last.target)
           => \E i \in RoomItemsSeenBy(v) : i.id = last.target

\* the user has just answered no at the add-object prompt
AnsweredNo(u) ==
  /\ last.kind = "cmd" /\ last.user = u /\ last.mode = "CREATING_OBJ_CONFIRM"
  /\ last.raw \in {"n", "no"}
  /\ users[u].state = "GENERATING_ANIMATIONS"

\* the promise of a wizard batch of the user has just settled: the mode is IDLE and a
\* state:update was emitted
WorldComplete(u) ==
  /\ last.kind = "generation" /\ last.user = u /\ last.handlers = {"wizard"}
  /\ users[u].state = "IDLE"
  /\ \E k \in Emitted(out, "state:update") : out[k].data.state = "IDLE"

\* C12: after a user answers no at the add-object prompt, the mode eventually becomes
\* IDLE and a final state:update is emitted, whichever art-service calls succeed or fail,
\* provided every call returns or fails in the end.
C12_GenerationEnds == \A u \in UserIds : AnsweredNo(u) ~> WorldComplete(u)

\* a batch whose tapestry call failed has settled, and the user is IDLE
C12_Witness ==
  /\ WorldComplete("u1")
  /\ last.batch.tapestry = "thrown"
  /\ last.batch.items # {}

\* a batch of art-service calls has just settled
BatchOver == last.kind = "generation"

HasAnimation(roomId, objectId, type) ==
  \E a \in animations : a.room_id = roomId /\ a.object_id = objectId /\ a.type = type

\* C13: art-service failures are contained per call: once a batch has settled, the
\* tapestry is persisted unless its own call failed, and every item of the batch that is
\* still in the store has its interaction animation unless its own call failed, whatever
\* became of the other calls of the batch.
C13_FailuresContained ==
  BatchOver =>
    /\ last.batch.tapestry # "thrown" => HasAnimation(last.batch.room, 0, "TAPESTRY")
    /\ \A i \in last.batch.items \ last.batch.thrown :
         ItemsWithId(items, i) # {} => HasAnimation(last.batch.room, i, "INTERACTION")

\* the wizard steps after the first one (room title)
LaterSteps == (WizardRoomModes \ {"CREATING_ROOM_TITLE"}) \cup WizardObjModes

\* the scratch record the step works on is not in the store at all
ScratchMissing(u, mode) ==
  IF mode \in WizardRoomModes THEN ~Has(tempRoomDataMap, u) ELSE ~Has(tempItemDataMap, u)

C14_ExpiryStep ==
  (last'.kind = "cmd" /\ last'.mode \in LaterSteps /\ ScratchMissing(last'.user, last'.mode))
    => LET u == last'.user
       IN /\ users'[u].state = "IDLE"
          /\ ~Has(tempRoomDataMap', u) /\ ~Has(tempItemDataMap', u)
          /\ \E k \in Emitted(out', "game:log") :
               out'[k].tag = "error" /\ out'[k].data = SessionExpired(out'[k].sock).data
          /\ rooms' = rooms /\ items' = items

\* C14: input for a wizard step other than the room title, arriving when the user's
\* scratch record for that step is gone, sets the mode to IDLE, leaves no scratch data of
\* the user, reports session expiry with an error log and persists no room or item.
C14_ExpiredSessionAborts == [][C14_ExpiryStep]_vars

\* the numeric wizard steps
NumericSteps ==
  {"CREATING_ROOM_MOOD", "CREATING_ROOM_SHROUD", "CREATING_OBJ_TYPE",
   "CREATING_OBJ_SUPPLY_TYPE", "CREATING_OBJ_ENEMY_STATS"}

\* the words that are numbers: an optional sign and digits, nothing else
Numerals == {"-1", "0", "1", "2", "3", "4", "5", "6", "7", "9"}

\* the numbers a step asks for, as the input gives them
Fields(mode, raw) == IF mode = "CREATING_OBJ_ENEMY_STATS" THEN Words(raw) ELSE <<raw>>

Needed(mode) == IF mode = "CREATING_OBJ_ENEMY_STATS" THEN 3 ELSE 1

InRange(mode, n) ==
  CASE mode = "CREATING_ROOM_MOOD" -> n \in 1..6
    [] mode = "CREATING_ROOM_SHROUD" -> n \in 0..5
    [] mode = "CREATING_OBJ_TYPE" -> n \in 1..6
    [] mode = "CREATING_OBJ_SUPPLY_TYPE" -> n \in 1..2
    [] OTHER -> n > 0

\* the step finds what the prior steps left in the scratch record
PriorsHeld(u, mode) ==
  CASE mode = "CREATING_ROOM_MOOD" -> Has(tempRoomDataMap, u)
    [] mode = "CREATING_ROOM_SHROUD" ->
         /\ Has(tempRoomDataMap, u)
         /\ ~Falsy(tempRoomDataMap[u].title) /\ ~Falsy(tempRoomDataMap[u].description)
         /\ ~Falsy(tempRoomDataMap[u].mood)
    [] mode = "CREATING_OBJ_TYPE" -> ~NoName(u)
    [] OTHER -> ~NoType(u)

\* a step handles input of a user at a numeric wizard step
NumericStep ==
  /\ last'.kind = "cmd" /\ last'.mode \in NumericSteps
  /\ PriorsHeld(last'.user, last'.mode)

\* some number the step asks for is missing, not a number, or out of range
NotValidNumbers(mode, raw) ==
  LET f == Fields(mode, raw)
  IN \/ Len(f) < Needed(mode)
     \/ \E k \in 1..Needed(mode) : f[k] \notin Numerals \/ ~InRange(mode, ParseInt(f[k]).n)

\* some number the step asks for is missing, or parseInt finds no integer at the start
\* of the word, or the integer it finds is out of range
NotParsedInRange(mode, raw) ==
  LET f == Fields(mode, raw)
  IN \/ Len(f) < Needed(mode)
     \/ \E k \in 1..Needed(mode) : ParseInt(f[k]).nan \/ ~InRange(mode, ParseInt(f[k]).n)

\* the input is rejected: an error log, and nothing else happens
Rejected ==
  /\ \E k \in Emitted(out', "game:log") : out'[k].tag = "error"
  /\ Emitted(out', "state:update") = {}
  /\ users' = users
  /\ tempRoomDataMap' = tempRoomDataMap /\ tempItemDataMap' = tempItemDataMap
  /\ rooms' = rooms /\ items' = items /\ animations' = animations

C15_RejectStep == (NumericStep /\ NotValidNumbers(last'.mode, last'.raw)) => Rejected

C15_ParsedStep == (NumericStep /\ NotParsedInRange(last'.mode, last'.raw)) => Rejected

OpensGateWithoutKey ==
  /\ last'.kind = "cmd" /\ last'.raw = "open gate" /\ last'.mode = "IDLE"
  /\ \E g \in RoomItemsSeenBy(last'.user) : g.name = "gate"
  /\ \A i \in getUserInventory(items, last'.user, users[last'.user].server_code) :
       i.name # "key"

C16_GateStep ==
  OpensGateWithoutKey =>
    /\ \E k \in Emitted(out', "game:log") :
         out'[k] = Log(out'[k].sock, "error", "You need a specific item to do that.")
    /\ users' = users /\ items' = items

\* C16: a gate authored with a required-item name that matches no item of its room is
\* created, and a user whose inventory does not hold the prerequisite item is refused
\* with the "you need a specific item" message when interacting with it.
C16_GateNeedsItem == [][C16_GateStep]_vars

\* a step handles a pickup command for the object of that name
Takes(name) ==
  /\ last'.kind = "cmd" /\ last'.mode = "IDLE" /\ "interaction" \in last'.handlers
  /\ Words(last'.raw) = <<"take", name>>

\* the rows of that name that lie in the room the user stands in
LyingBy(u, name) == {i \in RoomItemsSeenBy(u) : i.name = name /\ i.owner_id = NoValue}

Refused(evs) ==
  \E k \in Emitted(evs, "game:log") :
    evs[k].tag = "error" /\ evs[k].data \in {"You don't see it here.", "You already have it."}

C17_PickupStep ==
  /\ Takes("key") =>
       LET u == last'.user
       IN IF LyingBy(u, "key") # {}
          THEN /\ \A k \in LyingBy(u, "key") :
                    [k EXCEPT !.owner_id = u, !.room_id = 0] \in items' /\ k \notin items'
               /\ ~Refused(out')
          ELSE items' = items /\ Refused(out')
  /\ \A i \in items : (~i.is_infinite /\ i.owner_id # NoValue) => i \in items'
  /\ Cardinality({i \in items' : ~i.is_infinite}) <= Cardinality({i \in items : ~i.is_infinite})
  /\ \A i, j \in items' : (i.id = j.id) => i = j

\* C17: a pickup of a non-infinite item lying in the room moves the row to the inventory
\* of the user who sent it; from then on the row stays owned by that user, so every other
\* attempt, from any session and in any order, fails with a not-seen or already-have
\* error, and the rows of non-infinite items never grow in number or share an id.
C17_UniquePickup == [][C17_PickupStep]_vars

\* the key is owned by the second user, whose rival has just been refused
C17_Witness ==
  /\ \E i \in items : i.name = "key" /\ i.owner_id = "u2" /\ i.room_id = 0
  /\ last.kind = "cmd" /\ last.user = "u1" /\ last.raw = "take key"
  /\ Refused(out)

C18_CloneStep ==
  (Takes("apple") /\ LyingBy(last'.user, "apple") # {}) =>
    LET u == last'.user
    IN /\ items \subseteq items'
       /\ Cardinality(items' \ items) = 1
       /\ \A c \in items' \ items :
            /\ c.owner_id = u /\ c.room_id = 0 /\ c.name = "apple"
            /\ \A i \in items : i.id # c.id
       /\ \A t \in LyingBy(u, "apple") : t \in items'
       /\ ~Refused(out')

C19_PlacedOrOwned ==
  \A i \in items : (i.room_id # 0) # (i.owner_id # NoValue)

\* the goblin is gone, the key and an apple are owned, and an authored object lies in
\* the room north of the origin
C19_Witness ==
  /\ \A i \in items : i.name # Goblin.name
  /\ \E i \in items : i.name = "key" /\ i.owner_id = "u1"
  /\ \E i \in items : i.name = "apple" /\ i.owner_id = "u1"
  /\ \E i \in items : i.name = "gate" /\ i.room_id \notin {0, GenesisRoom.id, LairRoom.id}

\* a step handles the move of an IDLE user in a valid direction, to a coordinate where
\* the user's realm has no room
MovesIntoVoid ==
  /\ last'.kind = "cmd" /\ last'.mode = "IDLE" /\ last'.raw \in Directions
  /\ LET user == users[last'.user]
         to == moveAxial(user.current_q, user.current_r, last'.raw)
     IN \A room \in rooms : ~(room.q = to.q /\ room.r = to.r /\ room.server_code = user.server_code)

C20_VoidStep ==
  MovesIntoVoid =>
    LET u == last'.user
        to == moveAxial(users[u].current_q, users[u].current_r, last'.raw)
    IN /\ users'[u].current_q = to.q /\ users'[u].current_r = to.r
       /\ users'[u].state = "CREATING_ROOM_TITLE"
       /\ Has(tempRoomDataMap', u)
       /\ tempRoomDataMap'[u].q = to.q /\ tempRoomDataMap'[u].r = to.r
       /\ \A f \in DOMAIN tempRoomDataMap'[u] \ {"q", "r"} : tempRoomDataMap'[u][f] = NoValue
       /\ rooms' = rooms /\ items' = items

\* C20: a move of an IDLE user in a valid direction to a coordinate with no room of the
\* user's realm persists the new position, sets the mode to CREATING_ROOM_TITLE, seeds the
\* room scratch record with the new coordinate and nothing else, and creates no room.
C20_VoidStartsWizard == [][C20_VoidStep]_vars

\* the user has just walked north-east from the origin into the void
C20_Witness ==
  /\ last.kind = "cmd" /\ last.mode = "IDLE" /\ last.raw = "ne"
  /\ users[last.user].state = "CREATING_ROOM_TITLE"
  /\ users[last.user].current_q = 1 /\ users[last.user].current_r = -1
  /\ Has(tempRoomDataMap, last.user) /\ tempRoomDataMap[last.user].title = NoValue
  /\ RoomsAt(rooms, users[last.user].current_q, users[last.user].current_r, Realm) = {}

\* the step changes nothing but what it emits
NothingChanges == UNCHANGED handlerVars

MoveRefused ==
  /\ \E k \in Emitted(out', "game:log") :
       out'[k] = Log(out'[k].sock, "error", "Cannot move while in this state.")
  /\ NothingChanges

C21_AnyModeStep ==
  (last'.kind = "cmd" /\ last'.raw \in Directions /\ last'.mode # "IDLE") => MoveRefused

\* C21 as stated: a direction command of a user whose mode is not IDLE is rejected with
\* an explanatory error log and changes nothing.
C21_NonIdleMoveRefused == [][C21_AnyModeStep]_vars

C21_CombatStep ==
  (last'.kind = "cmd" /\ last'.raw \in Directions /\ last'.mode # "IDLE"
     /\ ~IsCreationState(last'.mode)) => MoveRefused

\* C21 amended: a direction command of a user whose mode is neither IDLE nor a mode of
\* the creation wizard (that is, COMBAT) is rejected with the error log of the movement
\* handler and changes nothing: position, mode, scratch records, battle record and
\* timers are unchanged.  In a wizard mode the same text is the answer to the wizard's
\* question.
C21_CombatMoveRefused == [][C21_CombatStep]_vars

\* a user in battle has just been refused a move north
C21_Witness ==
  /\ last.kind = "cmd" /\ last.raw = "n" /\ last.mode = "COMBAT" /\ last.inCombat
  /\ isInCombat(last.user) /\ users[last.user].state = "COMBAT"
  /\ \E k \in Emitted(out, "game:log") : out[k].tag = "error"

\* the opposite of a direction, and the offset each direction stands for
Opposite(d) ==
  CASE d = "n" -> "s" [] d = "s" -> "n" [] d = "ne" -> "sw"
    [] d = "sw" -> "ne" [] d = "nw" -> "se" [] OTHER -> "nw"

Offset(d) ==
  CASE d = "n" -> [q |-> 0, r |-> -1] [] d = "s" -> [q |-> 0, r |-> 1]
    [] d = "ne" -> [q |-> 1, r |-> -1] [] d = "sw" -> [q |-> -1, r |-> 1]
    [] d = "nw" -> [q |-> -1, r |-> 0] [] OTHER -> [q |-> 1, r |-> 0]

\* the coordinates of the explored range and of the cells around it, and wherever a
\* user stands
Cells ==
  {[q |-> q, r |-> r] : q \in (-MaxCoord - 1)..(MaxCoord + 1), r \in (-MaxCoord - 1)..(MaxCoord + 1)}
    \cup {[q |-> users[u].current_q, r |-> users[u].current_r] : u \in UserIds}

\* C22: from every coordinate and for each of the six directions, moveAxial adds the
\* fixed offset of the direction, and moveAxial with the opposite direction leads back to
\* the coordinate.
C22_MoveAxialInverse ==
  \A c \in Cells : \A d \in Directions :
    LET to == moveAxial(c.q, c.r, d)
    IN /\ to = [q |-> c.q + Offset(d).q, r |-> c.r + Offset(d).r]
       /\ moveAxial(to.q, to.r, Opposite(d)) = c

\* the user is back at the origin, having walked north-east into the void, authored the
\* room there, and walked south-west
C22_Witness ==
  /\ last.kind = "cmd" /\ last.mode = "IDLE" /\ last.raw = "sw"
  /\ users[last.user].current_q = 0 /\ users[last.user].current_r = 0
  /\ RoomsAt(rooms, 1, -1, Realm) # {}

\* ------------------------------------------------------------------ C23
\* the step handles a valid shroud level for a wizard whose scratch record is complete
ShroudAccepted ==
  /\ last'.kind = "cmd" /\ last'.mode = "CREATING_ROOM_SHROUD"
  /\ Has(tempRoomDataMap, last'.user)
  /\ ~Falsy(tempRoomDataMap[last'.user].title)
  /\ ~Falsy(tempRoomDataMap[last'.user].description)
  /\ ~Falsy(tempRoomDataMap[last'.user].mood)
  /\ ~ParseInt(last'.raw).nan /\ ParseInt(last'.raw).n \in 0..5

\* the fields of a room row
RoomColumns ==
  {"id", "q", "r", "server_code", "title", "description", "shroud_level", "created_by", "symbol"}

\* the step persists the room of the scratch record t of user u and asks for an object
PersistsRoomOf(u, t) ==
  /\ \E x \in rooms' :
       /\ rooms' \ rooms = {x}
       /\ x.q = t.q /\ x.r = t.r /\ x.server_code = users[u].server_code
       /\ x.title = t.title /\ x.description = t.description
       /\ x.shroud_level = ParseInt(last'.raw).n
       /\ x.created_by = u
  /\ rooms \subseteq rooms'
  /\ \A x \in rooms' : DOMAIN x = RoomColumns
  /\ Has(tempRoomDataMap', u) /\ tempRoomDataMap'[u] = t
  /\ users'[u].state = "CREATING_OBJ_CONFIRM"
  /\ \E k \in Emitted(out', "game:log") :
       out'[k] = Log(out'[k].sock, "prompt", "Add an object? (y/n)")

C23_AloneStep ==
  ShroudAccepted =>
    LET u == last'.user
        t == tempRoomDataMap[u]
    IN /\ PersistsRoomOf(u, t)
       /\ Cardinality(RoomsAt(rooms', t.q, t.r, users[u].server_code)) = 1

C23_ShroudStep ==
  ShroudAccepted =>
    LET u == last'.user
        t == tempRoomDataMap[u]
    IN /\ PersistsRoomOf(u, t)
       /\ RoomsAt(rooms, t.q, t.r, users[u].server_code) = {}
            => Cardinality(RoomsAt(rooms', t.q, t.r, users[u].server_code)) = 1

Outstanding(u) == \E g \in generating : g.user = u

C24_BusyStep ==
  (last'.kind = "cmd" /\ Outstanding(last'.user)) =>
    /\ users[last'.user].state \notin {"IDLE", "COMBAT"}
    /\ NothingChanges

\* C24: a command of a user whose art batch (of the wizard or of "regenerate") is
\* outstanding finds the user in a mode that takes no commands and changes nothing.
C24_BusyRejected == [][C24_BusyStep]_vars

C24_WizardStep ==
  (last'.kind = "cmd" /\ last'.mode = "GENERATING_ANIMATIONS") =>
    NothingChanges /\ out' = <<>>

\* the part of C24 the wizard keeps: a command in the mode GENERATING_ANIMATIONS changes
\* nothing and is answered by nothing
C24_WizardBusyDropped == [][C24_WizardStep]_vars

\* ------------------------------------------------------------------ C25
\* C25: no scratch record, of a room or of an item, is held for a user whose mode is
\* IDLE.
C25_IdleHoldsNoScratch ==
  \A u \in UserIds :
    users[u].state = "IDLE" => ~Has(tempRoomDataMap, u) /\ ~Has(tempItemDataMap, u)

\* ------------------------------------------------------------------ C26
\* the rows of a table that belong to the realm
OfRealm(tbl, serverCode) == {x \in tbl : x.server_code = serverCode}

OutsideRealm(tbl, serverCode) == {x \in tbl : x.server_code # serverCode}

\* every query made for user u, at the coordinates of the rooms there are in any realm,
\* answers from the rows of the realm of u alone
Scoped(u) ==
  LET serverCode == users[u].server_code
      rms == OfRealm(rooms, serverCode)
      its == OfRealm(items, serverCode)
  IN /\ \A x \in rooms :
          /\ RoomsAt(rooms, x.q, x.r, serverCode) = RoomsAt(rms, x.q, x.r, serverCode)
          /\ getRoomItems(items, x.id, serverCode) = getRoomItems(its, x.id, serverCode)
     /\ getUserInventory(items, u, serverCode) = getUserInventory(its, u, serverCode)

C26_RealmStep ==
  last'.user \in UserIds =>
    LET u == last'.user
        serverCode == users[u].server_code
        to == moveAxial(users[u].current_q, users[u].current_r, parseDirection(last'.raw))
    IN /\ Scoped(u)
       /\ OutsideRealm(rooms', serverCode) = OutsideRealm(rooms, serverCode)
       /\ OutsideRealm(items', serverCode) = OutsideRealm(items, serverCode)
       /\ \A v \in UserIds : users[v].server_code # serverCode => users'[v] = users[v]
       /\ \A x \in (rooms' \ rooms) \cup (items' \ items) : x.server_code = serverCode
       /\ (last'.kind = "cmd" /\ last'.mode = "IDLE" /\ last'.raw \in Directions
             /\ InBounds(to.q, to.r))
            => /\ users'[u].current_q = to.q /\ users'[u].current_r = to.r
               /\ users'[u].state = "CREATING_ROOM_TITLE"
                    <=> RoomsAt(OfRealm(rooms, serverCode), to.q, to.r, serverCode) = {}

\* C26: every step taken for a user (a command, a combat tick, a continuation of the
\* art of a room) reads the rooms, the room's items and the inventory from the rows of
\* the user's realm alone, leaves every room, item and user of another realm as it was,
\* creates rows in the user's realm only, and on a move it is the rooms of the user's
\* realm that decide between entering a room and authoring one.
C26_RealmsIsolated == [][C26_RealmStep]_vars

\* u1 has authored, in realm "A", the room north of the origin, where realm "B" has a
\* room of its own, and holds the key of realm "A" while the key of realm "B" lies at
\* the origin
C26_Witness ==
  /\ RoomsAt(rooms, 0, -1, Realm) # {} /\ RoomsAt(rooms, 0, -1, "B") # {}
  /\ \E i \in items : i.name = "key" /\ i.server_code = Realm /\ i.owner_id = "u1"
  /\ \E i \in items : i.name = "key" /\ i.server_code = "B" /\ i.owner_id = NoValue

\* ------------------------------------------------------------------ C27
\* the batch g, whose item calls are out, takes a step: the call of one item returns
ItemCallReturns(g) ==
  /\ g \in generating /\ g.phase = "items" /\ g \notin generating'
  /\ last'.kind \in {"interaction", "generation"}

\* the batch g after the step, if it goes on
Ongoing(g) == {h \in generating' : h.id = g.id}

C27_ItemStep ==
  \A g \in generating :
    ItemCallReturns(g) =>
      LET h == CHOOSE x \in Ongoing(g) : TRUE
          waiting == IF Ongoing(g) = {} THEN {} ELSE h.waiting
          thrown == IF Ongoing(g) = {} THEN last'.batch.thrown ELSE h.thrown
      IN /\ \E i \in g.waiting :
              /\ waiting = g.waiting \ {i}
              /\ \/ /\ animations' = createAnimation(animations, Interaction(g.room, i))
                    /\ thrown = g.thrown
                 \/ /\ animations' = animations
                    /\ thrown = g.thrown \cup {i}
         /\ Ongoing(g) = {} <=> Cardinality(g.waiting) = 1
         /\ Ongoing(g) = {} =>
              /\ \A k \in Emitted(out', "game:log") : out'[k].tag # "error"
              /\ last'.batch.items = g.items

\* C27: when the interaction call of one item of a batch returns, the item's animation is
\* persisted or the item is counted as failed, and nothing else of the batch changes: the
\* calls of the other items stay out, their rows stay, and the batch settles when the last
\* call has returned, without an error, whatever calls have failed.
C27_ItemsIndependent == [][C27_ItemStep]_vars

\* a batch of two items has settled with one call failed and the animation of the other
\* item persisted
C27_Witness ==
  /\ last.kind = "generation" /\ Cardinality(last.batch.items) = 2
  /\ Cardinality(last.batch.thrown) = 1
  /\ \E i \in last.batch.items \ last.batch.thrown :
       HasAnimation(last.batch.room, i, "INTERACTION")
  /\ \A k \in Emitted(out, "game:log") : out[k].tag # "error"
  /\ Emitted(out, "game:log") # {}

\* ------------------------------------------------------------------ C28
ObjectModes ==
  {"CREATING_OBJ_CONFIRM", "CREATING_OBJ_NAME", "CREATING_OBJ_DESC", "CREATING_OBJ_TYPE",
   "CREATING_OBJ_VALUE", "CREATING_OBJ_ENEMY_STATS", "CREATING_OBJ_SUPPLY_TYPE",
   "CREATING_OBJ_REQUIREMENT", "CREATING_OBJ_VERB", "CREATING_OBJ_VERB_CONFIRM",
   "CREATING_OBJ_SUCCESS_MSG"}

\* the step the type menu leads to for the type chosen, as the specification has it
StatedOfType(kind) ==
  CASE kind \in {"TREASURE", "BUFF_TRAP"} -> "CREATING_OBJ_VALUE"
    [] kind = "ENEMY" -> "CREATING_OBJ_ENEMY_STATS"
    [] kind = "PICKUP" -> "CREATING_OBJ_SUPPLY_TYPE"
    [] kind = "GATE" -> "CREATING_OBJ_REQUIREMENT"
    [] OTHER -> "CREATING_OBJ_VERB_CONFIRM"

\* the mode that follows a mode of the object loop when the input is accepted, with kind
\* the type held in the item buffer after the step: as the specification has it,
StatedAfter(mode, kind) ==
  CASE mode = "CREATING_OBJ_CONFIRM" -> {"CREATING_OBJ_NAME", "GENERATING_ANIMATIONS"}
    [] mode = "CREATING_OBJ_NAME" -> {"CREATING_OBJ_DESC"}
    [] mode = "CREATING_OBJ_DESC" -> {"CREATING_OBJ_TYPE"}
    [] mode = "CREATING_OBJ_TYPE" -> {StatedOfType(kind)}
    [] mode = "CREATING_OBJ_SUCCESS_MSG" -> {"CREATING_OBJ_CONFIRM"}
    [] mode = "CREATING_OBJ_VERB_CONFIRM" -> {"CREATING_OBJ_SUCCESS_MSG"}
    [] OTHER -> {"CREATING_OBJ_VERB_CONFIRM"}

\* and with the free verb of a flavor object and the fixed verb of an enemy
FoundAfter(mode, kind) ==
  CASE mode = "CREATING_OBJ_TYPE" /\ kind = "FLAVOR" -> {"CREATING_OBJ_VERB"}
    [] mode \in {"CREATING_OBJ_VERB", "CREATING_OBJ_ENEMY_STATS"} -> {"CREATING_OBJ_SUCCESS_MSG"}
    [] OTHER -> StatedAfter(mode, kind)

\* a command is handled in a mode of the object loop
ObjectStep == last'.kind = "cmd" /\ last'.mode \in ObjectModes

\* the type in the item buffer of user u after the step
TypeChosen(u) ==
  IF Has(tempItemDataMap', u) THEN tempItemDataMap'[u].interactionType ELSE NoValue

\* the step moves on in the loop, or stays on a rejected input, or ends the session
Follows(u, after) == users'[u].state \in after \cup {last'.mode, "IDLE"}

\* one item is committed by the step from the success message back to the confirmation,
\* and by no other step
CommitsOne(u) ==
  IF last'.mode = "CREATING_OBJ_SUCCESS_MSG" /\ users'[u].state = "CREATING_OBJ_CONFIRM"
  THEN items \subseteq items' /\ Cardinality(items' \ items) = 1
  ELSE items' = items

C28_StatedStep ==
  ObjectStep =>
    /\ Follows(last'.user, StatedAfter(last'.mode, TypeChosen(last'.user)))
    /\ CommitsOne(last'.user)

C28_FoundStep ==
  ObjectStep =>
    /\ Follows(last'.user, FoundAfter(last'.mode, TypeChosen(last'.user)))
    /\ CommitsOne(last'.user)

RoomItemsOf(u) ==
  {i \in items : /\ i.owner_id = NoValue
                 /\ i.server_code = users[u].server_code
                 /\ \E x \in rooms : /\ x.id = i.room_id
                                     /\ x.q = users[u].current_q /\ x.r = users[u].current_r
                                     /\ x.server_code = users[u].server_code}

\* a command "fight <target>" that no wizard consumed
FightCommand ==
  /\ last'.kind = "cmd"
  /\ Len(Words(last'.raw)) >= 2
  /\ Words(last'.raw)[1] = "fight"
  /\ ~IsCreationState(last'.mode)

\* a battle of user u starts in this step
BattleStarted(u) == ~Has(activeBattles, u) /\ Has(activeBattles', u)

\* the step leaves the mode of u, the battle registry and the timers as they were
FightRejected(u) ==
  /\ users'[u].state = users[u].state
  /\ UNCHANGED <<activeBattles, battleData, timers>>
  /\ \A k \in 1..Len(out') : LET e == out'[k] IN e.ev = "game:log" /\ e.data # "Combat begins!"

C29_FightStep ==
  FightCommand =>
    LET u == last'.user
        word == Words(last'.raw)[2]
        named == {i \in RoomItemsOf(u) : i.name = word}
    IN /\ BattleStarted(u) =>
            /\ users[u].state = "IDLE" /\ ~last'.inCombat
            /\ users'[u].state = "COMBAT"
            /\ \E i \in RoomItemsOf(u) :
                 /\ i.enemy_hp > 0
                 /\ i.name = word \/ ~ParseInt(word).nan
                 /\ battleData'[u].enemyId = i.id
                 /\ \E t \in timers' \ timers :
                      /\ timers' = timers \cup {t}
                      /\ t.user = u /\ t.target = i.id
                      /\ activeBattles' = Put(activeBattles, u, t.id)
                      /\ battleData' = Put(battleData, u, battleData'[u])
                      /\ battleData'[u].interval = t.id
       /\ ~BattleStarted(u) => FightRejected(u)
       /\ ( \/ last'.inCombat
            \/ ParseInt(word).nan /\ \A i \in named : i.enemy_hp <= 0 )
          => ~BattleStarted(u)

\* C29: a fight command starts a battle (mode COMBAT, one new timer, one battle record,
\* both bound to the target) only when the user is IDLE, in no battle, and the target is
\* an item of the user's current room with positive enemy hit points; a fight command
\* of a user who is in a battle, or whose target is missing from the room or has no
\* positive enemy hit points, starts nothing and leaves the mode, the battle registry
\* and the timers unchanged.
C29_FightStarts == [][C29_FightStep]_vars

\* a battle against the goblin has just begun by name, from IDLE
C29_Witness ==
  /\ last.kind = "cmd" /\ last.raw = "fight goblin" /\ last.mode = "IDLE"
  /\ Has(activeBattles, "u1") /\ users["u1"].state = "COMBAT"
  /\ Cardinality(timers) = 1
  /\ \E i \in items : i.name = "goblin" /\ battleData["u1"].enemyId = i.id

\* a fight command was rejected: the key is peaceful
C29_WitnessPeaceful ==
  /\ last.kind = "cmd" /\ last.raw = "fight key" /\ last.mode = "IDLE"
  /\ \E i \in RoomItemsOf("u1") : i.name = "key"
  /\ activeBattles = EmptyMap /\ timers = {}

\* a fight command was rejected: the user is in a battle
C29_WitnessBusy ==
  /\ last.kind = "cmd" /\ last.raw = "fight goblin" /\ last.inCombat
  /\ Has(activeBattles, "u1")

\* ---- C30
\* the listing of the room the user stands in, in the order the client numbers it
Listing(u) == InOrder(RoomItemsOf(u))

\* a command of an IDLE user whose target is the ordinal n
OrdinalCommand(verbs) ==
  /\ last'.kind = "cmd"
  /\ last'.mode = "IDLE"
  /\ Len(Words(last'.raw)) = 2
  /\ Words(last'.raw)[1] \in verbs
  /\ ~ParseInt(Words(last'.raw)[2]).nan
  /\ ParseInt(Words(last'.raw)[2]).n > 0

\* the step touches no item but x: a battle it starts is with x, and every other row of
\* the items table stays as it is (a new row is a copy of x)
ActsOnlyOn(u, x) ==
  /\ BattleStarted(u) => battleData'[u].enemyId = x.id
  /\ \A i \in items : i.id # x.id => i \in items'
  /\ \A j \in items' \ items : j.id = x.id \/ j.name = x.name

\* the two wordings of the answer that a position holds nothing
NothingThere == {"No object at that position.", "No enemy at that position."}

\* the step answers that the position is empty and changes nothing
NoObjectThere(u) ==
  /\ Len(out') = 1
  /\ out'[1].ev = "game:log" /\ out'[1].tag = "error"
  /\ out'[1].data \in NothingThere
  /\ UNCHANGED <<users, items, activeBattles, battleData, timers>>

OrdinalStep(verbs) ==
  OrdinalCommand(verbs) =>
    LET u == last'.user
        n == ParseInt(Words(last'.raw)[2]).n
    IN IF n <= Len(Listing(u))
       THEN /\ ActsOnlyOn(u, Listing(u)[n])
            /\ \A k \in 1..Len(out') :
                 out'[k].ev = "game:log" => out'[k].data \notin NothingThere
       ELSE NoObjectThere(u)

\* C30: every command of an IDLE user with an ordinal target n (fight n, open n, <verb> n)
\* is resolved against the listing of the user's current room as it is at that moment:
\* with n within the listing the command acts on the n-th item of the listing and on no
\* other, and with n beyond it the command answers that there is no object at that
\* position and changes nothing.
C30_OrdinalsByListing == [][OrdinalStep({"fight", "open", "take"})]_vars

\* the same for the verbs other than fight, whose targets the code does look up in the
\* listing
C30_VerbOrdinalsByListing == [][OrdinalStep({"open", "take"})]_vars

\* "fight 1" has begun a battle with the goblin while the listing of the lair shows the
\* key at position 1 and the goblin at position 2
C30_FightMistargets ==
  /\ last.kind = "cmd" /\ last.raw = "fight 1" /\ last.mode = "IDLE"
  /\ Has(battleData, "u1")
  /\ Len(Listing("u1")) = 2
  /\ Listing("u1")[1].name = "key"
  /\ Listing("u1")[2].id = battleData["u1"].enemyId

\* ---- C31
\* a step is a tick of a battle whose enemy is no longer in the items table
OrphanTick ==
  /\ last'.kind = "tick"
  /\ ItemsWithId(items, last'.target) = {}

C31_OrphanStep ==
  OrphanTick =>
    LET u == last'.user
    IN /\ \E t \in timers : /\ t.user = u /\ t.target = last'.target
                             /\ timers' = timers \ {t}
       /\ \A t \in timers' : t.user # u
       /\ ~Has(activeBattles', u) /\ ~Has(battleData', u)
       /\ \A v \in UserIds : users'[v].hp = users[v].hp /\ users'[v].gold = users[v].gold
       /\ items' = items
       /\ \A k \in 1..Len(out') : ~(out'[k].ev = "game:log" /\ out'[k].tag = "error")

\* C31: a combat tick that finds its enemy item gone from the store ends the battle: its
\* timer is stopped (so no further tick of the battle can fire), the battle record is
\* cleared, no hit points and no gold change, and no error is reported.
C31_OrphanTickEnds == [][C31_OrphanStep]_vars

\* the tick of a battle whose enemy a rival had killed has just ended that battle
C31_Witness ==
  /\ last.kind = "tick" /\ last.inCombat
  /\ ItemsWithId(items, last.target) = {}
  /\ \A k \in 1..Len(out) : out[k].ev # "combat:end"
  /\ ~Has(activeBattles, last.user)
  /\ \A t \in timers : t.user # last.user

\* ---- C32
\* C32: in every reachable state every user's hit points are between 0 and the user's
\* maximum, and every item's enemy hit points are between 0 and its enemy maximum,
\* whatever buffs, traps, ticks, defeats and retreats came before.
C32_HpWithinBounds ==
  /\ \A u \in UserIds : 0 <= users[u].hp /\ users[u].hp <= users[u].max_hp
  /\ \A i \in items : 0 <= i.enemy_hp /\ i.enemy_hp <= i.enemy_max_hp

\* the player, back from a fight with the goblin, has just used a buff and stands at the
\* maximum
C32_Witness ==
  /\ last.kind = "cmd" /\ last.raw = "open gate"
  /\ \E i \in RoomItemsOf("u1") :
       /\ i.name = "gate" /\ i.effect_type = "HEAL" /\ i.interact_verb = "open"
       /\ i.effect_value > 0
  /\ \E k \in 1..Len(out) : out[k].ev = "state:update"
  /\ users["u1"].hp = users["u1"].max_hp
  /\ \A i \in items : i.name = "goblin" => i.enemy_hp < i.enemy_max_hp

\* the player, at no hit points, has just walked into a trap and is told of the defeat
C32_WitnessTrap ==
  /\ last.kind = "cmd" /\ last.raw = "open gate"
  /\ \E i \in RoomItemsOf("u1") : i.name = "gate" /\ i.effect_type = "DAMAGE"
  /\ users["u1"].hp = 0
  /\ \E k \in 1..Len(out) : out[k].ev = "game:log" /\ out[k].data = "You have been defeated!"

\* ---- C33
\* a command "<verb> <name>" of an IDLE user that is neither a move, nor a fight, nor
\* addressed by position
InteractionCommand ==
  /\ last'.kind = "cmd"
  /\ last'.mode = "IDLE"
  /\ Len(Words(last'.raw)) = 2
  /\ Words(last'.raw)[1] \notin {"go", "help", "look", "fight", "regenerate"}
  /\ ParseInt(Words(last'.raw)[2]).nan

\* the items the name stands for: those of the room, or else those of the inventory
Addressed(u, name) ==
  LET inRoom == {i \in RoomItemsOf(u) : i.name = name}
  IN IF inRoom # {} THEN inRoom
     ELSE {i \in items : i.owner_id = u /\ i.server_code = users[u].server_code
                          /\ i.name = name}

Holds(u, itemId) ==
  \E i \in items : i.owner_id = u /\ i.server_code = users[u].server_code /\ i.id = itemId

\* why the command of user u fails, if it does
FailsBecause(u, verb, name) ==
  LET item == InOrder(Addressed(u, name))[1]
  IN IF Addressed(u, name) = {} THEN "missing"
     ELSE IF item.interact_verb # verb THEN "verb"
     ELSE IF item.required_item_id # 0 /\ ~Holds(u, item.required_item_id) THEN "gate"
     ELSE IF item.effect_type = "ITEM" /\ item.owner_id = u THEN "owned"
     ELSE "none"

\* the step reports an error and leaves the users and the items as they were
RefusedUntouched ==
  /\ \E k \in 1..Len(out') : out'[k].ev = "game:log" /\ out'[k].tag = "error"
  /\ \A k \in 1..Len(out') : out'[k].ev = "game:log" /\ out'[k].tag = "error"
  /\ UNCHANGED <<users, items, rooms>>

C33_FailedStep ==
  InteractionCommand =>
    (FailsBecause(last'.user, Words(last'.raw)[1], Words(last'.raw)[2]) # "none"
       => RefusedUntouched)

\* C33: an interaction command that fails (its target is neither in the room nor in the
\* inventory, its verb is not the verb of the item, the required item of a gate is not in
\* the inventory, or the item is a pickup the user already owns) emits an error log and
\* nothing else, and changes no user's gold, hit points, mode or position and no item's
\* room or owner.
C33_FailedInteraction == [][C33_FailedStep]_vars

\* a failed interaction of each kind has just been refused
FailedFor(reason) ==
  /\ last.kind = "cmd" /\ last.mode = "IDLE" /\ Len(Words(last.raw)) = 2
  /\ Words(last.raw)[1] \in {"take", "open"}
  /\ FailsBecause(last.user, Words(last.raw)[1], Words(last.raw)[2]) = reason
  /\ Len(out) = 1 /\ out[1].ev = "game:log" /\ out[1].tag = "error"

\* the key, already in the inventory, was asked for again
C33_Witness == FailedFor("owned") /\ last.raw = "take key"

C33_WitnessVerb == FailedFor("verb") /\ last.raw = "open key"

C33_WitnessMissing == FailedFor("missing")

C33_WitnessGate == FailedFor("gate")

\* ---- C34
C34_EmitStep ==
  LET ups == Emitted(out', "combat:update")
      ends == Emitted(out', "combat:end")
      refreshes == Emitted(out', "state:update")
      u == last'.user
  IN /\ ups # {} =>
          /\ last'.kind = "tick" /\ ups = {1}
          \* the update belongs to a battle that is registered and has not ended
          /\ \E t \in timers : /\ t.user = u /\ t.target = last'.target
                                /\ Has(activeBattles, u) /\ activeBattles[u] = t.id
                                /\ out'[1].sock = t.sock
          \* and reports the hit points as stored by this tick
          /\ LET d == out'[1].data
             IN /\ out'[1].tag = "player" =>
                     /\ d.enemyHp = Max(0, EnemyBefore.enemy_hp - d.damage)
                     /\ d.enemyHp > 0 =>
                          \E i \in items' : i.id = last'.target /\ i.enemy_hp = d.enemyHp
                /\ out'[1].tag = "enemy" =>
                     /\ d.playerHp = Max(0, users[u].hp - d.damage)
                     /\ d.playerHp > 0 => users'[u].hp = d.playerHp
     /\ ends # {} =>
          /\ Cardinality(ends) = 1
          /\ \A k \in ups : \A e \in ends : k < e
          /\ \A k \in refreshes : \A e \in ends : e < k
          /\ last'.kind = "tick" => ups # {} /\ Cardinality(refreshes) = 1
          \* the battle is over: no tick of it is left to emit an update
          /\ ~Has(activeBattles', u)
          /\ \A t \in timers' : t.user # u

\* C34: within one battle the events are ordered: a tick emits its combat:update first,
\* reporting the hit points as that tick stored them, to the connection of a battle that
\* is still registered; the tick that ends the battle emits combat:update, then
\* combat:end, then one state:update; and once combat:end is emitted the battle has no
\* timer left, so no combat:update of it can follow.
C34_EventsOrdered == [][C34_EmitStep]_vars

\* the last tick of a won battle: update, the victory line, combat:end, state:update
C34_Witness ==
  /\ last.kind = "tick" /\ Len(out) = 4
  /\ out[1].ev = "combat:update" /\ out[1].data.enemyHp = 0
  /\ out[3].ev = "combat:end" /\ out[3].tag = "win"
  /\ out[4].ev = "state:update"
  /\ timers = {}

\* the last tick of a lost battle: update, combat:end, then the refresh at the origin
C34_WitnessLoss ==
  /\ last.kind = "tick" /\ Len(out) = 5
  /\ out[1].ev = "combat:update" /\ out[1].data.playerHp = 0
  /\ out[2].ev = "combat:end" /\ out[2].tag = "loss"
  /\ out[4].ev = "state:update"
  /\ timers = {}

\* ---- C35
\* the battle of user u stops in this step
BattleStops(u) == Has(activeBattles, u) /\ ~Has(activeBattles', u)

C35_StopStep ==
  \A u \in UserIds :
    BattleStops(u) =>
      Cardinality({k \in Emitted(out', "combat:end") :
                     out'[k].sock = battleData[u].socketId
                       \/ (Has(socketUserMap, out'[k].sock)
                             /\ socketUserMap[out'[k].sock] = u)}) = 1

\* C35: every battle that stops (its user leaves the registry and its timer is cleared)
\* emits exactly one combat:end (win, loss or retreat) to the connection that owns it
\* (here: the connection the battle was started on, or any connection of its user), also
\* when it stops because another player's battle killed its enemy.
C35_EveryStopAnnounced == [][C35_StopStep]_vars

\* a battle that stops by a win, a loss or a retreat is announced once, to the connection
\* the battle was started on or, for a retreat, to the one that asked for it
C35_OutcomeStep ==
  \A u \in UserIds :
    (BattleStops(u) /\ ~OrphanTick) =>
      /\ Cardinality(Emitted(out', "combat:end")) = 1
      /\ last'.kind = "tick" =>
           \A k \in Emitted(out', "combat:end") : out'[k].sock = battleData[u].socketId

C35_OutcomesAnnounced == [][C35_OutcomeStep]_vars

\* a battle has just stopped on a tick that found its enemy gone, with no event at all
C35_SilentStop ==
  /\ last.kind = "tick" /\ last.inCombat
  /\ ~Has(activeBattles, last.user)
  /\ out = <<>>

\* ---- C36
\* C36: in every reachable state a user whose mode is IDLE stands on a coordinate that has
\* a persisted room in the user's realm.
C36_IdleOnRoom ==
  \A u \in UserIds :
    users[u].state = "IDLE" =>
      RoomsAt(rooms, users[u].current_q, users[u].current_r, users[u].server_code) # {}

\* ---- C37
\* C37: in every reachable state every user's gold is at least 0.
C37_GoldNotNegative == \A u \in UserIds : users[u].gold >= 0

\* gold changes by victories and by treasures only, and a victory never lowers it
C37_GoldStep ==
  \A u \in UserIds :
    users'[u].gold < users[u].gold =>
      /\ last'.kind = "cmd" /\ last'.user = u
      /\ \E i \in RoomItemsOf(u) :
           /\ i.effect_type = "GOLD" /\ i.effect_value < 0
           /\ users'[u].gold = users[u].gold + i.effect_value

C37_OnlyTreasureLowersGold == [][C37_GoldStep]_vars

\* ---- C38
\* the users whose gold is above the gold every account starts with
Paid == {u \in UserIds : users[u].gold > NewUser.gold}

\* the win outcomes among the events of the step
Wins == {k \in Emitted(out', "combat:end") : out'[k].tag = "win"}

\* a win is the tick that takes the stored enemy to zero: it removes the row and pays its
\* reward to the user of that tick and to nobody else; no other step pays anybody
C38_WinStep ==
  /\ Cardinality(Wins) <= 1
  /\ Wins # {} =>
       /\ last'.kind = "tick"
       /\ \E e \in ItemsWithId(items, last'.target) :
            LET xpReward == IF e.xp_value = 0 THEN DefaultXp ELSE e.xp_value
            IN /\ e.enemy_hp > 0
               /\ users'[last'.user].gold = users[last'.user].gold + xpReward
               /\ \A k \in Wins : out'[k].data = xpReward
       /\ ItemsWithId(items', last'.target) = {}
  /\ \A u \in UserIds :
       users'[u].gold # users[u].gold => Wins # {} /\ u = last'.user

C38_OnlyWinsPay == [][C38_WinStep]_vars

\* C38: the reward of one enemy item is paid at most once in total: of the users who fight
\* the same enemy at the same time at most one is paid, the sum paid is the reward of that
\* enemy, and it is paid only once the enemy's row is gone.
C38_RewardPaidOnce ==
  /\ Cardinality(Paid) <= 1
  /\ \A u \in Paid :
       /\ users[u].gold = NewUser.gold + Goblin.xp_value
       /\ ItemsWithId(items, Goblin.id) = {}
       /\ \A t \in timers : t.target # Goblin.id \/ t.user # u

\* both users had a battle with the enemy, one of them won it and was paid, and the
\* other one's battle is still registered
C38_Witness ==
  \E u \in UserIds : \E v \in UserIds \ {u} :
    /\ users[u].gold = NewUser.gold + Goblin.xp_value
    /\ last.kind = "tick" /\ last.user = u
    /\ Has(battleData, v) /\ battleData[v].enemyId = Goblin.id
    /\ \E t \in timers : t.user = v /\ t.target = Goblin.id

\* the loser's next tick has run: its battle is over, and it was paid nothing
C38_WitnessAfter ==
  \E u \in UserIds : \E v \in UserIds \ {u} :
    /\ users[u].gold = NewUser.gold + Goblin.xp_value
    /\ last.kind = "tick" /\ last.user = v /\ last.target = Goblin.id
    /\ ~Has(battleData, v) /\ users[v].gold = NewUser.gold

\* ---- C39
\* the step is a tick against item e in which the player's roll was the higher one
PlayerHit(e) ==
  /\ last'.kind = "tick" /\ last'.target = e.id
  /\ out' # <<>> /\ out'[1].ev = "combat:update" /\ out'[1].tag = "player"

\* what a step does to the enemy row e of the store: a player's hit takes its damage off
\* the hit points stored at that moment, whoever hit it before, and removes the row at
\* zero; every other step leaves the hit points as they are
C39_DamageStep ==
  \A e \in {i \in items : i.enemy_max_hp > 0} :
    LET after == ItemsWithId(items', e.id)
    IN IF PlayerHit(e)
       THEN LET d == out'[1].data
                left == e.enemy_hp - d.damage
            IN /\ d.damage = CeilHalf(d.playerRoll - d.enemyRoll) + 1
               /\ d.damage > 0
               /\ d.enemyHp = (IF left > 0 THEN left ELSE 0)
               /\ left > 0 => after = {[e EXCEPT !.enemy_hp = left]}
               /\ left <= 0 => after = {}
       ELSE after = {e}

\* C39: with several users in battle against the same enemy no damage is lost: every
\* player-sourced tick takes its damage off the enemy hit points held in the store at that
\* moment, down to zero at most, and no other step (another user's tick that the enemy
\* wins or ties, a retreat, a defeat, a new fight) changes the stored hit points, so that
\* they never rise and always are the initial ones less all damage dealt so far.
C39_NoDamageLost == [][C39_DamageStep]_vars

\* the stored enemy hit points never exceed the initial ones
C39_NeverAboveInitial ==
  \A i \in items : i.enemy_max_hp > 0 => i.enemy_hp >= 0 /\ i.enemy_hp <= i.enemy_max_hp

\* both users are in battle with the goblin, which one of them has just wounded
C39_Witness ==
  /\ \A u \in UserIds : \E t \in timers : t.user = u /\ t.target = Goblin.id
  /\ last.kind = "tick" /\ out # <<>> /\ out[1].ev = "combat:update" /\ out[1].tag = "player"
  /\ \E i \in ItemsWithId(items, Goblin.id) :
       /\ i.enemy_hp > 0 /\ i.enemy_hp < i.enemy_max_hp
       /\ out[1].data.enemyHp = i.enemy_hp

\* a hit smaller than the initial hit points finishes the goblin, while the other user is
\* still in battle with it
C39_WitnessKill ==
  /\ last.kind = "tick" /\ Len(out) = 4 /\ out[1].ev = "combat:update"
  /\ out[1].data.enemyHp = 0 /\ out[1].data.damage < Goblin.enemy_hp
  /\ \E t \in timers : t.user # last.user /\ t.target = Goblin.id

\* a user has retreated from the wounded goblin, and the wound stays
C39_WitnessRetreat ==
  /\ last.kind = "combat:retreat" /\ out # <<>> /\ out[1].ev = "combat:end"
  /\ \E i \in ItemsWithId(items, Goblin.id) : i.enemy_hp > 0 /\ i.enemy_hp < i.enemy_max_hp

\* a user has fallen to the wounded goblin, and the wound stays
C39_WitnessDefeat ==
  /\ last.kind = "tick" /\ Len(out) = 5 /\ out[2].ev = "combat:end" /\ out[2].tag = "loss"
  /\ \E i \in ItemsWithId(items, Goblin.id) : i.enemy_hp > 0 /\ i.enemy_hp < i.enemy_max_hp

\* ---- C40
\* the TAPESTRY rows the animations table holds for a room
TapestriesOf(roomId) == {a \in animations : a.room_id = roomId /\ a.type = "TAPESTRY"}

\* C40: in every reachable state each room has at most one TAPESTRY animation row.
C40_OneTapestryPerRoom == \A r \in rooms : Cardinality(TapestriesOf(r.id)) <= 1

\* the same, asked only of the states where no art-service call is pending (the second
\* row is not removed when the calls are over, so this fails as well)
C40_OneTapestryAtRest ==
  generating = {} => \A r \in rooms : Cardinality(TapestriesOf(r.id)) <= 1

\* two regenerations of one room are pending together
C40_Overlap ==
  \E g \in generating : \E h \in generating \ {g} :
    g.kind = "regenerate" /\ h.kind = "regenerate" /\ g.room = h.room
====
